---- MODULE Spec2Model ----
(***************************************************************************)
(* A model of the graph-augmented retrieval engine                         *)
(* (graphrag_anthropic_llamaindex): the LLM gateway (continuation and      *)
(* stitching), the JSON parser of LLM outputs, the global-search batching  *)
(* / map / reduce pipeline with the map-phase key point parser, the DRIFT  *)
(* search (context expansion, context trimming, response streaming and the *)
(* engine's last context), the ingestion orchestrator, the search command  *)
(* with its router, and the table store.                                   *)
(*                                                                         *)
(* Every subsystem has its own variables and its own specification; a      *)
(* subsystem's specification leaves the other subsystems' variables at     *)
(* their idle values.                                                      *)
(*                                                                         *)
(* Texts are sequences of one-character strings.  In the gateway the       *)
(* markers are single symbols: "S" is [START_JSON], "E" is [END_JSON],     *)
(* "F" is a code fence (three backticks), "j" is the word json after a     *)
(* fence, "{" and "}" are braces, "v" is the members of a JSON object,     *)
(* "x" is prose and " " is white space.                                    *)
(***************************************************************************)
EXTENDS Integers, Sequences, FiniteSets, TLC

VARIABLES
    \* ---- _stitch_responses applied twice (llm_utils.py)
    st_pc, st_s1, st_s2, st_once, st_twice,
    \* ---- _get_full_llm_response_with_continuation (llm_utils.py)
    gw_pc, full_response_text, attempts, json_parse_successful,
    is_explicitly_truncated, gw_calls, gw_continuations, gw_result,
    \* ---- CommunityContextBuilder._create_batches (context_builder.py)
    cb_pc, cb_reports, max_context_tokens, cb_next, batches, current_batch,
    \* ---- MapProcessor.process_batch (map_processor.py)
    mp_pc, mp_batches, max_concurrent, semaphore, task_pc, done_order,
    results, map_results,
    \* ---- ReduceProcessor.reduce (reduce_processor.py)
    rd_pc, rd_map_results, rd_query, rd_llm_failed, rd_prompt_key_points,
    rd_result,
    \* ---- SearchContext.trim_to_token_limit (drift_search/models.py)
    tr_pc, tr_context, tr_max_tokens, tr_trimmed,
    \* ---- add_documents (document_processor.py) and the tables of
    \*      db_manager.py
    ing_pc,          \* where the current run of add_documents is
    run_no,          \* how many runs were started
    all_documents,   \* the documents the loader returned to this run
    db,              \* the persisted tables
    index,           \* the three vector indexes
    run,             \* the local variables of the current run
    llm_calls,       \* LLM calls issued by the current run
    index_writes,    \* vector-index writes performed by the current run
    snap,            \* db as it was when the current run started
    prev_input,      \* the documents of the previous run
    prev_ok,         \* whether the previous run ended without an exception
    \* ---- parse_llm_json_output (llm_utils.py)
    pj_pc,
    pj_output,       \* how the LLM output is composed
    json_output,     \* the LLM output
    pj_result,        \* what the parser returns
    \* ---- the search command (main.py) and SearchModeRouter (router.py)
    rt_pc,
    rt_config,        \* the configuration the process was started with
    router,           \* the SearchModeRouter, once constructed
    rt_query,         \* args.query
    selected_mode,    \* what route returned
    rt_output,        \* what the command printed
    exit_code,        \* the exit code of the process
    \* ---- the table files of db_manager.py
    fs_pc,
    files,            \* the content of every table file
    fs_table,         \* the table of the last save
    fs_old,           \* the file of that table before the save
    fs_new,           \* the rows that save was given
    fs_save_failed,   \* whether that save raised
    fs_loaded,        \* what the load after that save returned
    \* ---- LocalSearcher.expand_context (drift_search/local_searcher.py)
    ex_pc,
    ex_entities,            \* the initial entities
    max_hops,
    relationships_cache,    \* the Relationship table
    entities_cache,         \* the Entity table
    expanded,               \* what expand_context returned
    \* ---- ResponseGenerator.stream_response (response_generator.py)
    sr_pc,
    streaming_enabled,
    chunk_size,
    deltas_seen,      \* the deltas the LLM stream has delivered so far
    buffer,
    yielded,          \* the chunks stream_response has yielded, in order
    \* ---- DriftSearchEngine._search_streaming (drift_search_engine.py)
    ds_pc,              \* where each streaming search is
    ds_max_tokens,      \* config["context"]["max_tokens"]
    ds_query,
    include_context,
    ds_context,         \* the trimmed context each search built
    ds_chunks,          \* the chunks each search has yielded
    last_context,       \* the engine's _last_context
    ds_got,             \* what get_last_context returned after each stream
    overlapped,         \* whether the search ran while another one did
    \* ---- MapProcessor.extract_key_points (map_processor.py)
    kp_pc,
    llm_response,     \* the text of the LLM, as a sequence of tokens
    kp_report_ids,    \* batch["report_ids"]
    kp_records,       \* batch["records"]
    kp_result        \* what extract_key_points returned

stVars == <<st_pc, st_s1, st_s2, st_once, st_twice>>
gwVars == <<gw_pc, full_response_text, attempts, json_parse_successful,
            is_explicitly_truncated, gw_calls, gw_continuations, gw_result>>

cbVars == <<cb_pc, cb_reports, max_context_tokens, cb_next, batches,
            current_batch>>

mpVars == <<mp_pc, mp_batches, max_concurrent, semaphore, task_pc, done_order,
            results, map_results>>

rdVars == <<rd_pc, rd_map_results, rd_query, rd_llm_failed,
            rd_prompt_key_points, rd_result>>

trVars == <<tr_pc, tr_context, tr_max_tokens, tr_trimmed>>

ingVars == <<ing_pc, run_no, all_documents, db, index, run, llm_calls,
             index_writes, snap, prev_input, prev_ok>>

pjVars == <<pj_pc, pj_output, json_output, pj_result>>

rtVars == <<rt_pc, rt_config, router, rt_query, selected_mode, rt_output,
            exit_code>>

fsVars == <<fs_pc, files, fs_table, fs_old, fs_new, fs_save_failed,
            fs_loaded>>

exVars == <<ex_pc, ex_entities, max_hops, relationships_cache,
            entities_cache, expanded>>

srVars == <<sr_pc, streaming_enabled, chunk_size, deltas_seen, buffer,
            yielded>>

dsVars == <<ds_pc, ds_max_tokens, ds_query, include_context, ds_context,
            ds_chunks, last_context, ds_got, overlapped>>

kpVars == <<kp_pc, llm_response, kp_report_ids, kp_records, kp_result>>

vars == <<stVars, gwVars, cbVars, mpVars, rdVars, trVars, ingVars, pjVars,
          rtVars, fsVars, exVars, srVars, dsVars, kpVars>>

\* what a subsystem's actions leave alone: the other subsystems
stOthers == <<gwVars, cbVars, mpVars, rdVars, trVars, ingVars, pjVars,
              rtVars, fsVars, exVars, srVars, dsVars, kpVars>>
gwOthers == <<stVars, cbVars, mpVars, rdVars, trVars, ingVars, pjVars,
              rtVars, fsVars, exVars, srVars, dsVars, kpVars>>
cbOthers == <<stVars, gwVars, mpVars, rdVars, trVars, ingVars, pjVars,
              rtVars, fsVars, exVars, srVars, dsVars, kpVars>>
mpOthers == <<stVars, gwVars, cbVars, rdVars, trVars, ingVars, pjVars,
              rtVars, fsVars, exVars, srVars, dsVars, kpVars>>
rdOthers == <<stVars, gwVars, cbVars, mpVars, trVars, ingVars, pjVars,
              rtVars, fsVars, exVars, srVars, dsVars, kpVars>>
trOthers == <<stVars, gwVars, cbVars, mpVars, rdVars, ingVars, pjVars,
              rtVars, fsVars, exVars, srVars, dsVars, kpVars>>
ingOthers == <<stVars, gwVars, cbVars, mpVars, rdVars, trVars, pjVars,
               rtVars, fsVars, exVars, srVars, dsVars, kpVars>>
pjOthers == <<stVars, gwVars, cbVars, mpVars, rdVars, trVars, ingVars,
              rtVars, fsVars, exVars, srVars, dsVars, kpVars>>
rtOthers == <<stVars, gwVars, cbVars, mpVars, rdVars, trVars, ingVars,
              pjVars, fsVars, exVars, srVars, dsVars, kpVars>>
fsOthers == <<stVars, gwVars, cbVars, mpVars, rdVars, trVars, ingVars,
              pjVars, rtVars, exVars, srVars, dsVars, kpVars>>
exOthers == <<stVars, gwVars, cbVars, mpVars, rdVars, trVars, ingVars,
              pjVars, rtVars, fsVars, srVars, dsVars, kpVars>>
srOthers == <<stVars, gwVars, cbVars, mpVars, rdVars, trVars, ingVars,
              pjVars, rtVars, fsVars, exVars, dsVars, kpVars>>
dsOthers == <<stVars, gwVars, cbVars, mpVars, rdVars, trVars, ingVars,
              pjVars, rtVars, fsVars, exVars, srVars, kpVars>>
kpOthers == <<stVars, gwVars, cbVars, mpVars, rdVars, trVars, ingVars,
              pjVars, rtVars, fsVars, exVars, srVars, dsVars>>

----------------------------------------------------------------------------
(* Generic helpers                                                         *)

UpperCase == <<"A", "B", "C", "D", "E", "F", "G", "H", "I", "J", "K", "L",
               "M", "N", "O", "P", "Q", "R", "S", "T", "U", "V", "W", "X",
               "Y", "Z">>

LowerCase == <<"a", "b", "c", "d", "e", "f", "g", "h", "i", "j", "k", "l",
               "m", "n", "o", "p", "q", "r", "s", "t", "u", "v", "w", "x",
               "y", "z">>

\* str.lower
Lower(s) ==
    [i \in 1..Len(s) |->
        IF \E k \in 1..26 : UpperCase[k] = s[i]
            THEN LowerCase[CHOOSE k \in 1..26 : UpperCase[k] = s[i]]
            ELSE s[i]]

Min2(a, b) == IF a <= b THEN a ELSE b

SetMax(S) == CHOOSE m \in S : \A n \in S : n <= m

Rep(c, n) == [i \in 1..n |-> c]

RECURSIVE SeqSum(_)
SeqSum(q) == IF q = <<>> THEN 0 ELSE Head(q) + SeqSum(Tail(q))

\* str.endswith
EndsWith(s, p) ==
    /\ Len(p) <= Len(s)
    /\ \A i \in 1..Len(p) : s[Len(s) - Len(p) + i] = p[i]

\* str.startswith
StartsWith(s, p) ==
    /\ Len(p) <= Len(s)
    /\ \A i \in 1..Len(p) : s[i] = p[i]

\* s[lo:hi] on 1-based positions lo..hi
Slice(s, lo, hi) == IF lo > hi THEN <<>> ELSE SubSeq(s, lo, hi)

\* str.find / str.rfind of a one-symbol marker; 0 stands for Python's -1
Find(s, c) ==
    LET P == {i \in 1..Len(s) : s[i] = c}
    IN  IF P = {} THEN 0 ELSE CHOOSE i \in P : \A k \in P : i <= k

RFind(s, c) ==
    LET P == {i \in 1..Len(s) : s[i] = c}
    IN  IF P = {} THEN 0 ELSE SetMax(P)

\* str.strip
Strip(s) ==
    LET P == {i \in 1..Len(s) : s[i] # " "}
    IN  IF P = {} THEN <<>>
        ELSE Slice(s, CHOOSE i \in P : \A k \in P : i <= k, SetMax(P))

----------------------------------------------------------------------------
(* llm_utils.py: _stitch_responses                                         *)

search_window == 200

\* the k the loop of _stitch_responses breaks on: it runs k downwards from
\* min(len(s1), len(s2), search_window) and stops at the first match
MaxOverlap(s1, s2) ==
    LET top == Min2(Min2(Len(s1), Len(s2)), search_window)
        K == {k \in 1..top : EndsWith(s1, Slice(s2, 1, k))}
    IN  IF K = {} THEN 0 ELSE SetMax(K)

\* a stitching that runs k upwards and stops at the first (shortest) match
ShortestOverlapStitch(s1, s2) ==
    IF s1 = <<>> THEN s2
    ELSE IF s2 = <<>> THEN s1
    ELSE LET top == Min2(Min2(Len(s1), Len(s2)), search_window)
             K == {k \in 1..top : EndsWith(s1, Slice(s2, 1, k))}
             o == IF K = {} THEN 0 ELSE CHOOSE k \in K : \A m \in K : k <= m
         IN  s1 \o Slice(s2, o + 1, Len(s2))

stitch_responses(s1, s2) ==
    IF s1 = <<>> THEN s2
    ELSE IF s2 = <<>> THEN s1
    ELSE s1 \o Slice(s2, MaxOverlap(s1, s2) + 1, Len(s2))

\* ---- the strings the stitching is exercised on
MaxTail == 2

BlockLens == {0, 1, search_window - 1, search_window, search_window + 1}

StitchInputs ==
    {Rep("x", n) \o Rep("y", m) : n \in BlockLens, m \in 0..MaxTail}
    \cup {Rep("y", m) \o Rep("x", n) : n \in {0, 1}, m \in 0..MaxTail}

StitchIdle ==
    /\ st_pc = "idle" /\ st_s1 = <<>> /\ st_s2 = <<>>
    /\ st_once = <<>> /\ st_twice = <<>>

StitchInit ==
    /\ st_pc = "start"
    /\ st_s1 \in StitchInputs
    /\ st_s2 \in StitchInputs
    /\ st_once = <<>>
    /\ st_twice = <<>>

\* full_response_text = _stitch_responses(full_response_text, next_part)
StitchOnce ==
    /\ st_pc = "start"
    /\ st_once' = stitch_responses(st_s1, st_s2)
    /\ st_pc' = "once"
    /\ UNCHANGED <<st_s1, st_s2, st_twice>>
    /\ UNCHANGED stOthers

\* the same continuation stitched on a second time
StitchTwice ==
    /\ st_pc = "once"
    /\ st_twice' = stitch_responses(st_once, st_s2)
    /\ st_pc' = "twice"
    /\ UNCHANGED <<st_s1, st_s2, st_once>>
    /\ UNCHANGED stOthers

----------------------------------------------------------------------------
(* llm_utils.py: parse_llm_json_output                                     *)

None == "None"

\* json.loads accepts the text: one object, braces balanced, white space
\* anywhere.  "v" and "w" stand for the members of an object.
IsJson(s) ==
    LET t == SelectSeq(s, LAMBDA c : c # " ")
        Depth[i \in 0..Len(t)] ==
            IF i = 0 THEN 0
            ELSE IF t[i] = "{" THEN Depth[i - 1] + 1
            ELSE IF t[i] = "}" THEN Depth[i - 1] - 1
            ELSE Depth[i - 1]
    IN  /\ Len(t) >= 2
        /\ \A i \in 1..Len(t) : t[i] \in {"{", "}", "v", "w"}
        /\ t[1] = "{"
        /\ \A i \in 1..(Len(t) - 1) : Depth[i] >= 1
        /\ Depth[Len(t)] = 0

\* the text handed to json.loads when the tags are missing: fences are
\* peeled off, then the text is cut to its first "{" .. last "}"
FallbackExtract(json_string) ==
    LET s == Strip(json_string)
        unfenced ==
            IF StartsWith(s, <<"F", "j">>) /\ EndsWith(s, <<"F">>)
                THEN Strip(Slice(s, 3, Len(s) - 1))
            ELSE IF StartsWith(s, <<"F">>) /\ EndsWith(s, <<"F">>)
                THEN Strip(Slice(s, 2, Len(s) - 1))
            ELSE json_string
        start_idx == Find(unfenced, "{")
        end_idx == RFind(unfenced, "}")
    IN  IF start_idx # 0 /\ end_idx # 0 /\ start_idx < end_idx
            THEN Slice(unfenced, start_idx, end_idx)
            ELSE unfenced

\* an extraction that does not look for the tags
UntaggedExtract(json_string) == FallbackExtract(json_string)

\* the text handed to json.loads
ExtractJsonText(json_string) ==
    LET start_idx == Find(json_string, "S")
        end_idx == RFind(json_string, "E")
    IN  IF start_idx # 0 /\ end_idx # 0 /\ start_idx < end_idx
            THEN Strip(Slice(json_string, start_idx + 1, end_idx - 1))
            ELSE FallbackExtract(json_string)

\* the parsed value (its canonical text), or None on a JSONDecodeError
parse_llm_json_output(json_string) ==
    LET t == ExtractJsonText(json_string)
    IN  IF IsJson(t) THEN SelectSeq(t, LAMBDA c : c # " ") ELSE None

----------------------------------------------------------------------------
(* llm_utils.py: _get_full_llm_response_with_continuation                  *)

max_continuation_attempts == 5

\* what one Settings.llm.complete call may return as response.text
LlmParts ==
    { <<"S", "{", "v", "}", "E">>,      \* the whole tagged answer
      <<"S", "{", "v">>,                \* an answer cut short
      <<"{", "v", "}", "E">>,           \* a continuation repeating a little
      <<"v", "}", "E">>,                \* a continuation
      <<"{", "v", "}">>,                \* bare JSON
      <<"x", "x">>,                     \* prose
      <<>> }

StopReasons == {"end_turn", "max_tokens"}

\* a loop that forgets the attempts budget until two calls too late
LoopConditionLate ==
    attempts < max_continuation_attempts + 2 /\ ~json_parse_successful

\* while attempts < max_continuation_attempts and not json_parse_successful
LoopCondition ==
    attempts < max_continuation_attempts /\ ~json_parse_successful

GatewayIdle ==
    /\ gw_pc = "idle" /\ full_response_text = <<>> /\ attempts = 0
    /\ json_parse_successful = FALSE /\ is_explicitly_truncated = FALSE
    /\ gw_calls = 0 /\ gw_continuations = 0 /\ gw_result = None

\* lines 26-28: the state on entry to the loop
GatewayInit ==
    /\ gw_pc = "loop" /\ full_response_text = <<>> /\ attempts = 0
    /\ json_parse_successful = FALSE /\ is_explicitly_truncated = FALSE
    /\ gw_calls = 0 /\ gw_continuations = 0 /\ gw_result = None

\* one pass of the loop body whose Settings.llm.complete returns
LoopIteration ==
    /\ gw_pc = "loop"
    /\ LoopCondition
    /\ attempts' = attempts + 1
    /\ gw_calls' = gw_calls + 1
    /\ gw_continuations' =
           IF attempts' > 1 THEN gw_continuations + 1 ELSE gw_continuations
    /\ \E next_part \in LlmParts, stop_reason \in StopReasons :
           /\ full_response_text' =
                  stitch_responses(full_response_text, next_part)
           /\ json_parse_successful' =
                  (parse_llm_json_output(full_response_text') # None)
           /\ is_explicitly_truncated' = (stop_reason = "max_tokens")
    /\ UNCHANGED <<gw_pc, gw_result>>
    /\ UNCHANGED gwOthers

\* one pass of the loop body whose Settings.llm.complete raises: the
\* exception leaves the function
LoopIterationRaises ==
    /\ gw_pc = "loop"
    /\ LoopCondition
    /\ attempts' = attempts + 1
    /\ gw_calls' = gw_calls + 1
    /\ gw_continuations' =
           IF attempts' > 1 THEN gw_continuations + 1 ELSE gw_continuations
    /\ gw_pc' = "raised"
    /\ UNCHANGED <<full_response_text, json_parse_successful,
                   is_explicitly_truncated, gw_result>>
    /\ UNCHANGED gwOthers

\* the loop ends; return full_response_text
GatewayReturn ==
    /\ gw_pc = "loop"
    /\ ~LoopCondition
    /\ gw_pc' = "done"
    /\ gw_result' = full_response_text
    /\ UNCHANGED <<full_response_text, attempts, json_parse_successful,
                   is_explicitly_truncated, gw_calls, gw_continuations>>
    /\ UNCHANGED gwOthers

GatewayNext == LoopIteration \/ LoopIterationRaises \/ GatewayReturn

StitchNext == StitchOnce \/ StitchTwice

----------------------------------------------------------------------------
(* global_search/context_builder.py: _create_batches                       *)

\* "-----Reports-----\nid|title|content|rank|weight\n"
header ==
    Rep("-", 5) \o <<"R", "e", "p", "o", "r", "t", "s">> \o Rep("-", 5)
    \o <<"\n">>
    \o <<"i", "d", "|", "t", "i", "t", "l", "e", "|",
         "c", "o", "n", "t", "e", "n", "t", "|", "r", "a", "n", "k", "|",
         "w", "e", "i", "g", "h", "t">>
    \o <<"\n">>

DigitChars == <<"0", "1", "2", "3", "4", "5", "6", "7", "8", "9">>

\* str(n) of a natural number
RECURSIVE IntText(_)
IntText(n) ==
    IF n < 10 THEN <<DigitChars[n + 1]>>
    ELSE IntText(n \div 10) \o <<DigitChars[(n % 10) + 1]>>

\* f"{weight:.3f}" of a weight kept in thousandths
WeightText(w) ==
    IntText(w \div 1000) \o <<".">>
    \o <<DigitChars[((w \div 100) % 10) + 1],
         DigitChars[((w \div 10) % 10) + 1],
         DigitChars[(w % 10) + 1]>>

\* f"{report['id']}|{title}|{content}|{rank}|{weight:.3f}\n"
format_report(report) ==
    report.id \o <<"|">> \o report.title \o <<"|">> \o report.content
    \o <<"|">> \o IntText(report.rank) \o <<"|">> \o WeightText(report.weight)
    \o <<"\n">>

\* no token encoder: len(text) // 4
count_tokens(text) == Len(text) \div 4

EmptyBatch ==
    [context |-> header, records |-> <<>>, tokens |-> count_tokens(header),
     report_ids |-> <<>>]

\* the batch list without the batch that is being closed
DropClosedBatch(bs, current) == bs

\* if current_batch["records"]: batches.append(current_batch)
SaveBatch(bs, current) ==
    IF current.records # <<>> THEN Append(bs, current) ELSE bs

\* lines 230-234: the report goes into the current batch
AddToBatch(current, report) ==
    [context |-> current.context \o format_report(report),
     records |-> Append(current.records, report),
     tokens |-> current.tokens + count_tokens(format_report(report)),
     report_ids |-> Append(current.report_ids, report.id)]

\* ---- the report lists the batching is exercised on
MaxReports == 3

ContentLens == {1, 4, 40}

TokenBudgets == {16, 21, 30}

ReportAt(i, n) ==
    [id |-> <<"r">> \o IntText(i),
     title |-> <<"R", "e", "p", "o", "r", "t">>,
     content |-> Rep("c", n),
     rank |-> i % 3,
     weight |-> IF i = 1 THEN 1000 ELSE 500]

ReportLists ==
    UNION { { [i \in 1..n |-> ReportAt(i, lens[i])] :
                lens \in [1..n -> ContentLens] } : n \in 0..MaxReports }

BatchIdle ==
    /\ cb_pc = "idle" /\ cb_reports = <<>> /\ max_context_tokens = 0
    /\ cb_next = 0 /\ batches = <<>> /\ current_batch = EmptyBatch

\* lines 199-209
BatchInit ==
    /\ cb_pc = "loop"
    /\ cb_reports \in ReportLists
    /\ max_context_tokens \in TokenBudgets
    /\ cb_next = 1
    /\ batches = <<>>
    /\ current_batch = EmptyBatch

\* one pass of the loop over the reports, lines 211-234
BatchReport ==
    /\ cb_pc = "loop"
    /\ cb_next <= Len(cb_reports)
    /\ LET report == cb_reports[cb_next]
           report_tokens == count_tokens(format_report(report))
           overflow ==
               current_batch.tokens + report_tokens > max_context_tokens
       IN  /\ batches' = IF overflow THEN SaveBatch(batches, current_batch)
                                     ELSE batches
           /\ current_batch' =
                  AddToBatch(IF overflow THEN EmptyBatch ELSE current_batch,
                             report)
    /\ cb_next' = cb_next + 1
    /\ UNCHANGED <<cb_pc, cb_reports, max_context_tokens>>
    /\ UNCHANGED cbOthers

\* lines 236-241: the last batch is added and the list returned
BatchReturn ==
    /\ cb_pc = "loop"
    /\ cb_next > Len(cb_reports)
    /\ batches' = SaveBatch(batches, current_batch)
    /\ cb_pc' = "done"
    /\ UNCHANGED <<cb_reports, max_context_tokens, cb_next, current_batch>>
    /\ UNCHANGED cbOthers

BatchNext == BatchReport \/ BatchReturn

----------------------------------------------------------------------------
(* global_search/map_processor.py: process_batch, _process_single_batch    *)

\* ---- the batch lists the map phase is exercised on
MaxBatches == 4

MaxConcurrency == 2

\* a batch as the map phase reads it: its token count and its report ids
MapBatch(i) == [tokens |-> 10 + i, report_ids |-> <<i>>]

\* the key points extract_key_points may return for batch i (0-based)
KeyPointChoices(i) ==
    { <<>>,
      <<[description |-> <<i, 1>>, score |-> 80, report_ids |-> <<i + 1>>]>>,
      <<[description |-> <<i, 1>>, score |-> 50, report_ids |-> <<i + 1>>],
        [description |-> <<i, 2>>, score |-> 90, report_ids |-> <<i + 1>>]>> }

MapResult(batch_id, key_points, context_tokens, processing_time) ==
    [batch_id |-> batch_id, key_points |-> key_points,
     context_tokens |-> context_tokens, processing_time |-> processing_time]

\* what a task that raised leaves in the list asyncio.gather returns
RaisedException == [exception |-> "Exception"]

\* asyncio.Semaphore.acquire goes through only while the value is positive
CanAcquireUnbounded(value) == TRUE

CanAcquire(value) == value > 0

\* the element a failed batch is given when the error is passed on as it is
PassOnResult(i, result, bs) == result

\* lines 87-98: the element of map_results for the i-th (0-based) result
CollectResult(i, result, bs) ==
    IF result = RaisedException
        THEN MapResult(i, <<>>, bs[i + 1].tokens, 0)
        ELSE result

Tasks == 1..Len(mp_batches)

\* the results handed back in the order in which the tasks finished
as_completed(outcomes, order) ==
    [k \in 1..Len(order) |-> outcomes[order[k]]]

\* line 83: asyncio.gather hands the results back in the order of the
\* awaitables it was given, whatever the order in which they finished
gather(outcomes, order) ==
    [t \in 1..Len(outcomes) |-> outcomes[t]]

\* the map tasks that hold the semaphore, inside their LLM call
InFlight == {t \in Tasks : task_pc[t] = "in_llm"}

MapIdle ==
    /\ mp_pc = "idle" /\ mp_batches = <<>> /\ max_concurrent = 0
    /\ semaphore = 0 /\ task_pc = <<>> /\ done_order = <<>>
    /\ results = <<>> /\ map_results = <<>>

\* __init__ (line 41) and lines 77-83: the tasks are created and gathered
MapInit ==
    /\ mp_pc = "gather"
    /\ \E n \in 1..MaxBatches : mp_batches = [i \in 1..n |-> MapBatch(i)]
    /\ max_concurrent \in 1..MaxConcurrency
    /\ semaphore = max_concurrent
    /\ task_pc = [t \in 1..Len(mp_batches) |-> "waiting"]
    /\ done_order = <<>>
    /\ results = [t \in 1..Len(mp_batches) |-> None]
    /\ map_results = <<>>

\* line 109: async with self.semaphore (entry)
AcquireSemaphore(t) ==
    /\ mp_pc = "gather"
    /\ task_pc[t] = "waiting"
    /\ CanAcquire(semaphore)
    /\ semaphore' = semaphore - 1
    /\ task_pc' = [task_pc EXCEPT ![t] = "in_llm"]
    /\ UNCHANGED <<mp_pc, mp_batches, max_concurrent, done_order, results,
                   map_results>>
    /\ UNCHANGED mpOthers

\* lines 125-141: the LLM call returns, the key points are extracted and the
\* task returns its MapResult; leaving the with block releases the semaphore
TaskReturns(t) ==
    /\ mp_pc = "gather"
    /\ task_pc[t] = "in_llm"
    /\ \E key_points \in KeyPointChoices(t - 1) :
           results' = [results EXCEPT ![t] =
               MapResult(t - 1, key_points, mp_batches[t].tokens, 1)]
    /\ semaphore' = semaphore + 1
    /\ task_pc' = [task_pc EXCEPT ![t] = "returned"]
    /\ done_order' = Append(done_order, t)
    /\ UNCHANGED <<mp_pc, mp_batches, max_concurrent, map_results>>
    /\ UNCHANGED mpOthers

\* lines 143-145: the LLM call or the extraction raises, the task re-raises;
\* leaving the with block releases the semaphore
TaskRaises(t) ==
    /\ mp_pc = "gather"
    /\ task_pc[t] = "in_llm"
    /\ results' = [results EXCEPT ![t] = RaisedException]
    /\ semaphore' = semaphore + 1
    /\ task_pc' = [task_pc EXCEPT ![t] = "raised"]
    /\ done_order' = Append(done_order, t)
    /\ UNCHANGED <<mp_pc, mp_batches, max_concurrent, map_results>>
    /\ UNCHANGED mpOthers

\* lines 83-100: gather(return_exceptions=True) is over, the results are
\* collected and returned
CollectResults ==
    /\ mp_pc = "gather"
    /\ \A t \in Tasks : task_pc[t] \in {"returned", "raised"}
    /\ LET gathered == gather(results, done_order)
       IN  map_results' =
               [t \in Tasks |-> CollectResult(t - 1, gathered[t], mp_batches)]
    /\ mp_pc' = "returned"
    /\ UNCHANGED <<mp_batches, max_concurrent, semaphore, task_pc, done_order,
                   results>>
    /\ UNCHANGED mpOthers

MapNext ==
    \/ \E t \in Tasks : AcquireSemaphore(t)
    \/ \E t \in Tasks : TaskReturns(t)
    \/ \E t \in Tasks : TaskRaises(t)
    \/ CollectResults

----------------------------------------------------------------------------
(* global_search/reduce_processor.py: reduce, _create_fallback_response    *)

\* all_key_points[:20] and key_points[:10]
top_key_points_limit == 20

fallback_limit == 10

\* s[:n]
FirstN(q, n) == Slice(q, 1, Min2(n, Len(q)))

\* lines 77-79: the key points of all map results, in batch order
RECURSIVE AllKeyPoints(_)
AllKeyPoints(mrs) ==
    IF mrs = <<>> THEN <<>>
    ELSE Head(mrs).key_points \o AllKeyPoints(Tail(mrs))

\* kp goes in front of the elements with its own score
RECURSIVE InsertBeforeEqual(_, _)
InsertBeforeEqual(sorted, kp) ==
    IF sorted = <<>> THEN <<kp>>
    ELSE IF Head(sorted).score > kp.score
        THEN <<Head(sorted)>> \o InsertBeforeEqual(Tail(sorted), kp)
        ELSE <<kp>> \o sorted

\* kp goes behind every element whose score is not smaller than its own: the
\* place a stable descending sort gives it
RECURSIVE InsertByScore(_, _)
InsertByScore(sorted, kp) ==
    IF sorted = <<>> THEN <<kp>>
    ELSE IF Head(sorted).score >= kp.score
        THEN <<Head(sorted)>> \o InsertByScore(Tail(sorted), kp)
        ELSE <<kp>> \o sorted

\* a reduce that leaves the pooled key points in the order they came
Unsorted(kps) == kps

\* line 82: all_key_points.sort(key=lambda x: x.score, reverse=True)
RECURSIVE SortByScoreDesc(_)
SortByScoreDesc(kps) ==
    IF kps = <<>> THEN <<>>
    ELSE InsertByScore(SortByScoreDesc(FirstN(kps, Len(kps) - 1)),
                       kps[Len(kps)])

\* lines 175-186, the lines of the fallback response: the query line, a
\* blank, one numbered line per key point, a blank, the note that the
\* response was generated automatically
create_fallback_response(key_points, query) ==
    <<[line |-> "query", text |-> query], [line |-> "blank"]>>
    \o [i \in 1..Len(FirstN(key_points, fallback_limit)) |->
            [line |-> "item", number |-> i,
             text |-> key_points[i].description]]
    \o <<[line |-> "blank"], [line |-> "auto_generated_note"]>>

\* lines 148-171, the report ids of the traceability information
TraceReportIds(kps) ==
    UNION {{kps[i].report_ids[j] : j \in 1..Len(kps[i].report_ids)} :
               i \in 1..Len(kps)}

\* lines 119-129
GlobalSearchResult(response, mrs, kps) ==
    [response |-> response,
     response_type |-> "multiple paragraphs",
     map_results |-> mrs,
     traceability |-> TraceReportIds(kps),
     total_tokens |-> SeqSum([i \in 1..Len(mrs) |-> mrs[i].context_tokens]),
     processing_time |-> 1]

\* ---- the map results the reduce is exercised on
MaxMapResults == 3

KeyPointCounts == {0, 4, 7}

ScorePatterns == {"flat", "rising", "falling"}

PatternScore(pattern, i, b) ==
    IF pattern = "flat" THEN 50
    ELSE IF pattern = "rising" THEN 10 * i + b
    ELSE 100 - 10 * i

KeyPointsOf(b, n, pattern) ==
    [i \in 1..n |->
        [description |-> <<b, i>>, score |-> PatternScore(pattern, i, b),
         report_ids |-> <<b>>]]

MapResultsChoices ==
    UNION { { [b \in 1..n |->
                 MapResult(b - 1, KeyPointsOf(b, cnt[b], pat[b]), 10 + b, 1)] :
              cnt \in [1..n -> KeyPointCounts],
              pat \in [1..n -> ScorePatterns] } : n \in 1..MaxMapResults }

ReduceIdle ==
    /\ rd_pc = "idle" /\ rd_map_results = <<>> /\ rd_query = ""
    /\ rd_llm_failed = FALSE /\ rd_prompt_key_points = <<>>
    /\ rd_result = None

ReduceInit ==
    /\ rd_pc = "start"
    /\ rd_map_results \in MapResultsChoices
    /\ rd_query = "test query"
    /\ rd_llm_failed = FALSE
    /\ rd_prompt_key_points = <<>>
    /\ rd_result = None

\* reduce, with self.llm.chat returning a response
ReduceLlmAnswers ==
    /\ rd_pc = "start"
    /\ LET all_key_points == SortByScoreDesc(AllKeyPoints(rd_map_results))
           top_key_points == FirstN(all_key_points, top_key_points_limit)
       IN  /\ rd_prompt_key_points' = top_key_points
           /\ rd_result' = GlobalSearchResult(
                  <<[line |-> "llm_response"]>>, rd_map_results,
                  all_key_points)
    /\ rd_llm_failed' = FALSE
    /\ rd_pc' = "done"
    /\ UNCHANGED <<rd_map_results, rd_query>>
    /\ UNCHANGED rdOthers

\* reduce, with self.llm.chat raising: lines 111-113
ReduceLlmFails ==
    /\ rd_pc = "start"
    /\ LET all_key_points == SortByScoreDesc(AllKeyPoints(rd_map_results))
           top_key_points == FirstN(all_key_points, top_key_points_limit)
       IN  /\ rd_prompt_key_points' = top_key_points
           /\ rd_result' = GlobalSearchResult(
                  create_fallback_response(top_key_points, rd_query),
                  rd_map_results, all_key_points)
    /\ rd_llm_failed' = TRUE
    /\ rd_pc' = "done"
    /\ UNCHANGED <<rd_map_results, rd_query>>
    /\ UNCHANGED rdOthers

ReduceNext == ReduceLlmAnswers \/ ReduceLlmFails

----------------------------------------------------------------------------
(* drift_search/models.py: SearchContext                                   *)

\* get_token_count: one token per 4 characters
get_token_count(ctx) ==
    ( Len(ctx.query)
      + SeqSum([i \in 1..Len(ctx.entities) |->
            Len(ctx.entities[i].name) + Len(ctx.entities[i].description)])
      + SeqSum([i \in 1..Len(ctx.communities) |->
            Len(ctx.communities[i].title) + Len(ctx.communities[i].summary)])
      + SeqSum([i \in 1..Len(ctx.text_units) |->
            Len(ctx.text_units[i].text)]) ) \div 4

\* list.pop()
Pop(q) == Slice(q, 1, Len(q) - 1)

\* while trimmed.text_units and trimmed.get_token_count() > max_tokens
RECURSIVE PopTextUnits(_, _)
PopTextUnits(ctx, max_tokens) ==
    IF ctx.text_units # <<>> /\ get_token_count(ctx) > max_tokens
        THEN PopTextUnits([ctx EXCEPT !.text_units = Pop(@)], max_tokens)
        ELSE ctx

\* while trimmed.entities and trimmed.get_token_count() > max_tokens
RECURSIVE PopEntities(_, _)
PopEntities(ctx, max_tokens) ==
    IF ctx.entities # <<>> /\ get_token_count(ctx) > max_tokens
        THEN PopEntities([ctx EXCEPT !.entities = Pop(@)], max_tokens)
        ELSE ctx

\* while trimmed.communities and trimmed.get_token_count() > max_tokens
RECURSIVE PopCommunities(_, _)
PopCommunities(ctx, max_tokens) ==
    IF ctx.communities # <<>> /\ get_token_count(ctx) > max_tokens
        THEN PopCommunities([ctx EXCEPT !.communities = Pop(@)], max_tokens)
        ELSE ctx

\* a trimming that pops the entities before the text units
TrimEntitiesFirst(ctx, max_tokens) ==
    IF get_token_count(ctx) <= max_tokens THEN ctx
    ELSE PopCommunities(
             PopTextUnits(PopEntities(ctx, max_tokens), max_tokens),
             max_tokens)

trim_to_token_limit(ctx, max_tokens) ==
    IF get_token_count(ctx) <= max_tokens THEN ctx
    ELSE PopCommunities(
             PopEntities(PopTextUnits(ctx, max_tokens), max_tokens),
             max_tokens)

\* ---- the contexts the trimming is exercised on
MaxItems == 2

QueryLens == {4, 12}

TokenLimits == {0, 2, 5, 8}

EntityAt(i) ==
    [id |-> <<"e", i>>, name |-> Rep("n", 4), description |-> Rep("d", 4 * i)]

CommunityAt(i) ==
    [id |-> <<"c", i>>, title |-> Rep("t", 4), summary |-> Rep("s", 8)]

TextUnitAt(i) == [id |-> <<"t", i>>, text |-> Rep("u", 6 * i)]

SearchContexts ==
    { [query |-> Rep("q", ql),
       entities |-> [i \in 1..ne |-> EntityAt(i)],
       communities |-> [i \in 1..nc |-> CommunityAt(i)],
       text_units |-> [i \in 1..nt |-> TextUnitAt(i)]] :
      ql \in QueryLens, ne \in 0..MaxItems, nc \in 0..MaxItems,
      nt \in 0..MaxItems }

TrimIdle ==
    /\ tr_pc = "idle" /\ tr_context = None /\ tr_max_tokens = 0
    /\ tr_trimmed = None

TrimInit ==
    /\ tr_pc = "start"
    /\ tr_context \in SearchContexts
    /\ tr_max_tokens \in TokenLimits
    /\ tr_trimmed = None

\* context.trim_to_token_limit(max_tokens)
Trim ==
    /\ tr_pc = "start"
    /\ tr_trimmed' = trim_to_token_limit(tr_context, tr_max_tokens)
    /\ tr_pc' = "done"
    /\ UNCHANGED <<tr_context, tr_max_tokens>>
    /\ UNCHANGED trOthers

TrimNext == Trim

----------------------------------------------------------------------------
(* document_processor.py: add_documents; db_manager.py: the tables         *)

\* _calculate_document_hash: SHA-256 of f"{text}:{source_path}".  SHA-256
\* is taken to be free of collisions, so the hash is the hashed string.
calculate_document_hash(text, source_path) == text \o <<":">> \o source_path

\* df['hash'].tolist() as a set
HashesOf(processed_files) ==
    {processed_files[i].hash : i \in 1..Len(processed_files)}

\* a duplicate check that never recognises a document
NeverProcessed(doc_hash, processed_hashes) == FALSE

\* line 81: if doc_hash in processed_hashes
IsProcessed(doc_hash, processed_hashes) == doc_hash \in processed_hashes

\* lines 72-99: the documents that are not in processed_hashes
NewDocuments(docs, processed_hashes) ==
    SelectSeq(docs, LAMBDA doc :
        ~IsProcessed(calculate_document_hash(doc.text, doc.source_path),
                     processed_hashes))

\* lines 85-89: one row per new document
NewlyProcessedFiles(docs, processed_hashes) ==
    LET new == NewDocuments(docs, processed_hashes)
    IN  [i \in 1..Len(new) |->
            [filepath |-> new[i].source_path,
             hash |-> calculate_document_hash(new[i].text,
                                              new[i].source_path),
             original_path |-> new[i].source_path]]

\* DataFrame.drop_duplicates(subset=...): the first row of every key stays
DropDuplicates(rows, subset) ==
    LET Key(row) == [c \in subset |-> row[c]]
        indexed == [i \in 1..Len(rows) |-> <<i, rows[i]>>]
        kept == SelectSeq(indexed, LAMBDA p :
                    \A j \in 1..(p[1] - 1) : Key(rows[j]) # Key(p[2]))
    IN  [i \in 1..Len(kept) |-> kept[i][2]]

\* ---- the graph of lines 151-153 and graph_operations.py
\* the nodes of the graph in the order add_edge creates them
RECURSIVE GraphNodes(_)
GraphNodes(rels) ==
    IF rels = <<>> THEN <<>>
    ELSE LET init == GraphNodes(Pop(rels))
             last == rels[Len(rels)]
             with_source ==
                 IF \E i \in 1..Len(init) : init[i] = last.source
                     THEN init ELSE Append(init, last.source)
         IN  IF \E i \in 1..Len(with_source) : with_source[i] = last.target
                 THEN with_source ELSE Append(with_source, last.target)

GraphEdges(rels) ==
    {{rels[i].source, rels[i].target} : i \in 1..Len(rels)}

\* the nodes reachable from the node n
RECURSIVE Reach(_, _)
Reach(edges, seen) ==
    LET more == seen \cup {m \in UNION edges :
                              \E n \in seen : {n, m} \in edges}
    IN  IF more = seen THEN seen ELSE Reach(edges, more)

\* stable_largest_connected_component: max(components, key=len) takes the
\* first of the largest components, in the order of their first nodes
LargestComponent(rels) ==
    LET nodes == GraphNodes(rels)
        edges == GraphEdges(rels)
        comp(i) == Reach(edges, {nodes[i]})
        best == CHOOSE i \in 1..Len(nodes) :
                    /\ \A k \in 1..Len(nodes) :
                           Cardinality(comp(k)) <= Cardinality(comp(i))
                    /\ \A k \in 1..(i - 1) :
                           Cardinality(comp(k)) < Cardinality(comp(i))
    IN  IF nodes = <<>> THEN <<>>
        ELSE SelectSeq(nodes, LAMBDA n : n \in comp(best))

\* cluster_graph with use_lcc: what hierarchical_leiden may answer for the
\* component: one cluster, or its first node apart from the others
ClusterChoices(rels) ==
    LET nodes == LargestComponent(rels)
    IN  IF nodes = <<>> THEN {<<>>}
        ELSE {<<[level |-> 0, cluster_id |-> 0, parent_cluster |-> -1,
                 nodes |-> nodes]>>}
             \cup
             (IF Len(nodes) < 2 THEN {}
              ELSE {<<[level |-> 0, cluster_id |-> 0, parent_cluster |-> -1,
                       nodes |-> <<Head(nodes)>>],
                      [level |-> 0, cluster_id |-> 1, parent_cluster |-> -1,
                       nodes |-> Tail(nodes)]>>})

\* ---- the documents and the LLM answers the ingestion is exercised on
MaxRuns == 2

MaxDocs == 2

DocUniverse ==
    { [text |-> <<"A">>, source_path |-> <<"p", "1">>],
      [text |-> <<"B">>, source_path |-> <<"p", "2">>] }

DocumentLists ==
    UNION { [1..n -> DocUniverse] : n \in 0..MaxDocs }

\* the names and types the LLM answers with
Alice == <<"A", "l", "i", "c", "e">>

Bob == <<"B", "o", "b">>

Acme == <<"A", "c", "m", "e">>

Person == <<"P", "e", "r", "s", "o", "n">>

Organization == <<"O", "r", "g">>

Entity(name, type) == [name |-> name, type |-> type]

Relationship(source, target) ==
    [source |-> source, target |-> target, type |-> "works_for",
     description |-> "d"]

\* parse_llm_json_output returning None, as a value that compares with the
\* parsed dictionaries
ParsedNone == [is_none |-> TRUE]

\* what parse_llm_json_output may return for the extraction prompt of a
\* chunk: ParsedNone, or the entities and relationships
ExtractionResults(text) ==
    IF text = <<"A">>
        THEN { ParsedNone,
               [entities |-> <<Entity(Alice, Person),
                               Entity(Acme, Organization)>>,
                relationships |-> <<Relationship(Alice, Acme)>>],
               [entities |-> <<Entity(Lower(Alice), Lower(Person))>>,
                relationships |-> <<>>] }
        ELSE { ParsedNone,
               [entities |-> <<Entity(Bob, Person),
                               Entity(Acme, Organization)>>,
                relationships |-> <<Relationship(Bob, Acme)>>] }

\* what parse_llm_json_output may return for the summary prompt
SummaryResults == {ParsedNone, [summary |-> "s", key_entities |-> <<>>]}

EmptyDb ==
    [processed_files |-> <<>>, entities |-> <<>>, relationships |-> <<>>,
     communities |-> <<>>, community_summaries |-> <<>>]

EmptyIndex == [main |-> <<>>, entity |-> <<>>, community |-> <<>>]

NoRun ==
    [processed_files_df |-> <<>>, newly_processed_files |-> <<>>,
     nodes |-> <<>>, next_node |-> 1,
     extracted_entities_list |-> <<>>,
     extracted_relationships_list |-> <<>>,
     communities |-> <<>>, next_community |-> 1,
     entity_to_node_text |-> {},
     extracted_community_summaries |-> <<>>,
     writes |-> <<>>,           \* the persistent writes of the run, in order
     failed_at |-> "None"]      \* the phase in which the run was aborted

\* the phases of add_documents with the processed files saved first
PhasesHashesFirst ==
    <<"processed_files", "extract", "save_entities", "save_relationships",
      "communities", "entity_texts", "summarize", "save_summaries",
      "community_index", "main_index", "entity_index", "done">>

\* the phases of add_documents with the main index first
PhasesMainIndexFirst ==
    <<"main_index", "extract", "save_entities", "save_relationships",
      "communities", "entity_texts", "summarize", "save_summaries",
      "community_index", "entity_index", "processed_files", "done">>

\* the phases of add_documents, in the order of its statements
Phases ==
    <<"extract", "save_entities", "save_relationships", "communities",
      "entity_texts", "summarize", "save_summaries", "community_index",
      "main_index", "entity_index", "processed_files", "done">>

PhaseAfter(phase) ==
    Phases[(CHOOSE i \in 1..Len(Phases) : Phases[i] = phase) + 1]

\* a persistent write is noted in the run's list of writes
Written(r, what) == [r EXCEPT !.writes = Append(@, what)]

IngestIdle ==
    /\ ing_pc = "off" /\ run_no = 0 /\ all_documents = <<>>
    /\ db = EmptyDb /\ index = EmptyIndex /\ run = NoRun
    /\ llm_calls = 0 /\ index_writes = 0 /\ snap = EmptyDb
    /\ prev_input = <<>> /\ prev_ok = FALSE

\* an empty output directory, no run started
IngestInit ==
    /\ ing_pc = "idle" /\ run_no = 0 /\ all_documents = <<>>
    /\ db = EmptyDb /\ index = EmptyIndex /\ run = NoRun
    /\ llm_calls = 0 /\ index_writes = 0 /\ snap = EmptyDb
    /\ prev_input = <<>> /\ prev_ok = FALSE

\* lines 49-108: a run starts on the documents the loader returns; the
\* processed hashes are loaded, the new documents kept and chunked (one
\* chunk per document); with no new document the run returns
StartRun ==
    /\ ing_pc \in {"idle", "done", "failed"}
    /\ run_no < MaxRuns
    /\ run_no' = run_no + 1
    /\ \E docs \in DocumentLists :
           LET processed_hashes == HashesOf(db.processed_files)
               new == NewDocuments(docs, processed_hashes)
           IN  /\ all_documents' = docs
               /\ run' = [NoRun EXCEPT
                      !.processed_files_df = db.processed_files,
                      !.newly_processed_files =
                          NewlyProcessedFiles(docs, processed_hashes),
                      !.nodes = [i \in 1..Len(new) |-> new[i].text]]
               /\ ing_pc' = IF new = <<>> THEN "done" ELSE Head(Phases)
    /\ llm_calls' = 0
    /\ index_writes' = 0
    /\ snap' = db
    /\ prev_input' = all_documents
    /\ prev_ok' = (ing_pc = "done")
    /\ UNCHANGED <<db, index>>
    /\ UNCHANGED ingOthers

\* lines 115-127: the extraction of one chunk
ExtractChunk ==
    /\ ing_pc = "extract"
    /\ \E result \in ExtractionResults(run.nodes[run.next_node]) :
           run' = [run EXCEPT
               !.extracted_entities_list =
                   IF result = ParsedNone THEN @ ELSE @ \o result.entities,
               !.extracted_relationships_list =
                   IF result = ParsedNone THEN @
                   ELSE @ \o result.relationships,
               !.next_node = @ + 1]
    /\ llm_calls' = llm_calls + 1
    /\ ing_pc' = IF run.next_node = Len(run.nodes)
                     THEN PhaseAfter("extract") ELSE "extract"
    /\ UNCHANGED <<run_no, all_documents, db, index, index_writes, snap,
                   prev_input, prev_ok>>
    /\ UNCHANGED ingOthers

\* lines 134-139
SaveEntities ==
    /\ ing_pc = "save_entities"
    /\ IF run.extracted_entities_list = <<>>
           THEN UNCHANGED <<db, run>>
           ELSE /\ db' = [db EXCEPT !.entities =
                       DropDuplicates(@ \o run.extracted_entities_list,
                                      {"name", "type"})]
                /\ run' = Written(run, "Entity")
    /\ ing_pc' = PhaseAfter("save_entities")
    /\ UNCHANGED <<run_no, all_documents, index, llm_calls, index_writes,
                   snap, prev_input, prev_ok>>
    /\ UNCHANGED ingOthers

\* lines 141-146
SaveRelationships ==
    /\ ing_pc = "save_relationships"
    /\ IF run.extracted_relationships_list = <<>>
           THEN UNCHANGED <<db, run>>
           ELSE /\ db' = [db EXCEPT !.relationships =
                       DropDuplicates(
                           @ \o run.extracted_relationships_list,
                           {"source", "target", "type", "description"})]
                /\ run' = Written(run, "Relationship")
    /\ ing_pc' = PhaseAfter("save_relationships")
    /\ UNCHANGED <<run_no, all_documents, index, llm_calls, index_writes,
                   snap, prev_input, prev_ok>>
    /\ UNCHANGED ingOthers

\* lines 151-153: the relationships graph.add_edge is called for
GraphRelationships == run.extracted_relationships_list

\* lines 149-166 and 238-241: the graph of this run's relationships is
\* clustered and the communities saved; without communities the
\* summarization and the community index are skipped
DetectCommunities ==
    /\ ing_pc = "communities"
    /\ \E communities \in ClusterChoices(GraphRelationships) :
           IF communities = <<>>
               THEN /\ UNCHANGED <<db, run>>
                    /\ ing_pc' = PhaseAfter("community_index")
               ELSE /\ db' = [db EXCEPT !.communities =
                           DropDuplicates(@ \o communities,
                                          {"level", "cluster_id"})]
                    /\ run' = Written([run EXCEPT
                                          !.communities = communities],
                                      "Community")
                    /\ ing_pc' = PhaseAfter("communities")
    /\ UNCHANGED <<run_no, all_documents, index, llm_calls, index_writes,
                   snap, prev_input, prev_ok>>
    /\ UNCHANGED ingOthers

\* lines 174-181: every chunk is extracted a second time, for the names of
\* the entities whose text a summary can use
BuildEntityToNodeText ==
    /\ ing_pc = "entity_texts"
    /\ \E answers \in [1..Len(run.nodes) -> UNION {ExtractionResults(t) :
                           t \in {run.nodes[i] : i \in 1..Len(run.nodes)}}] :
           /\ \A i \in 1..Len(run.nodes) :
                  answers[i] \in ExtractionResults(run.nodes[i])
           /\ run' = [run EXCEPT !.entity_to_node_text =
                  UNION {IF answers[i] = ParsedNone THEN {}
                         ELSE {answers[i].entities[j].name :
                                  j \in 1..Len(answers[i].entities)} :
                         i \in 1..Len(run.nodes)}]
    /\ llm_calls' = llm_calls + Len(run.nodes)
    /\ ing_pc' = PhaseAfter("entity_texts")
    /\ UNCHANGED <<run_no, all_documents, db, index, index_writes, snap,
                   prev_input, prev_ok>>
    /\ UNCHANGED ingOthers

\* lines 183-212: one community is summarized, if a text is known for one
\* of its members
SummarizeCommunity ==
    /\ ing_pc = "summarize"
    /\ LET community == run.communities[run.next_community]
           has_text == \E i \in 1..Len(community.nodes) :
                           community.nodes[i] \in run.entity_to_node_text
       IN  \E summary_dict \in
                   IF has_text THEN SummaryResults ELSE {ParsedNone} :
               /\ run' = [run EXCEPT
                      !.extracted_community_summaries =
                          IF summary_dict = ParsedNone THEN @
                          ELSE Append(@, [community_id |->
                                              community.cluster_id,
                                          summary |-> summary_dict.summary]),
                      !.next_community = @ + 1]
               /\ llm_calls' = IF has_text THEN llm_calls + 1 ELSE llm_calls
    /\ ing_pc' = IF run.next_community = Len(run.communities)
                     THEN PhaseAfter("summarize") ELSE "summarize"
    /\ UNCHANGED <<run_no, all_documents, db, index, index_writes, snap,
                   prev_input, prev_ok>>
    /\ UNCHANGED ingOthers

\* lines 214-219
SaveSummaries ==
    /\ ing_pc = "save_summaries"
    /\ IF run.extracted_community_summaries = <<>>
           THEN UNCHANGED <<db, run>>
           ELSE /\ db' = [db EXCEPT !.community_summaries =
                       DropDuplicates(
                           @ \o run.extracted_community_summaries,
                           {"community_id"})]
                /\ run' = Written(run, "CommunitySummary")
    /\ ing_pc' = PhaseAfter("save_summaries")
    /\ UNCHANGED <<run_no, all_documents, index, llm_calls, index_writes,
                   snap, prev_input, prev_ok>>
    /\ UNCHANGED ingOthers

\* lines 222-237
WriteCommunityIndex ==
    /\ ing_pc = "community_index"
    /\ IF run.extracted_community_summaries = <<>>
           THEN UNCHANGED <<index, index_writes, run>>
           ELSE /\ index' = [index EXCEPT !.community =
                       @ \o run.extracted_community_summaries]
                /\ index_writes' = index_writes + 1
                /\ run' = Written(run, "community_index")
    /\ ing_pc' = PhaseAfter("community_index")
    /\ UNCHANGED <<run_no, all_documents, db, llm_calls, snap, prev_input,
                   prev_ok>>
    /\ UNCHANGED ingOthers

\* lines 244-254
WriteMainIndex ==
    /\ ing_pc = "main_index"
    /\ index' = [index EXCEPT !.main = @ \o run.nodes]
    /\ index_writes' = index_writes + 1
    /\ run' = Written(run, "main_index")
    /\ ing_pc' = PhaseAfter("main_index")
    /\ UNCHANGED <<run_no, all_documents, db, llm_calls, snap, prev_input,
                   prev_ok>>
    /\ UNCHANGED ingOthers

\* lines 257-273
WriteEntityIndex ==
    /\ ing_pc = "entity_index"
    /\ IF run.extracted_entities_list = <<>>
           THEN UNCHANGED <<index, index_writes, run>>
           ELSE /\ index' = [index EXCEPT !.entity =
                       @ \o run.extracted_entities_list]
                /\ index_writes' = index_writes + 1
                /\ run' = Written(run, "entity_index")
    /\ ing_pc' = PhaseAfter("entity_index")
    /\ UNCHANGED <<run_no, all_documents, db, llm_calls, snap, prev_input,
                   prev_ok>>
    /\ UNCHANGED ingOthers

\* lines 276-279: the hashes of this run are appended to the table the run
\* loaded at its start, and the table is saved
SaveProcessedFiles ==
    /\ ing_pc = "processed_files"
    /\ db' = [db EXCEPT !.processed_files =
                 run.processed_files_df \o run.newly_processed_files]
    /\ run' = Written(run, "ProcessedFile")
    /\ ing_pc' = PhaseAfter("processed_files")
    /\ UNCHANGED <<run_no, all_documents, index, llm_calls, index_writes,
                   snap, prev_input, prev_ok>>
    /\ UNCHANGED ingOthers

\* lines 128-131, 210-212, 233-235, 252-254, 269-271, 280-283: an LLM call,
\* a save or an index write raises; the run is aborted
RunFails ==
    /\ ing_pc \in {"extract", "save_entities", "save_relationships",
                   "communities", "entity_texts", "summarize",
                   "save_summaries", "community_index", "main_index",
                   "entity_index", "processed_files"}
    /\ run' = [run EXCEPT !.failed_at = ing_pc]
    /\ ing_pc' = "failed"
    /\ UNCHANGED <<run_no, all_documents, db, index, llm_calls,
                   index_writes, snap, prev_input, prev_ok>>
    /\ UNCHANGED ingOthers

IngestNext ==
    \/ StartRun
    \/ ExtractChunk
    \/ SaveEntities
    \/ SaveRelationships
    \/ DetectCommunities
    \/ BuildEntityToNodeText
    \/ SummarizeCommunity
    \/ SaveSummaries
    \/ WriteCommunityIndex
    \/ WriteMainIndex
    \/ WriteEntityIndex
    \/ SaveProcessedFiles
    \/ RunFails

----------------------------------------------------------------------------
(* llm_utils.py: parse_llm_json_output on outputs with tagged and fenced   *)
(* blocks                                                                  *)

WhiteSpaces == {<<>>, <<" ">>}

\* [START_JSON] ... [END_JSON] around an object with the members "v",
\* whole or cut short
TaggedBlocks ==
    { <<"S">> \o ws1 \o body \o ws2 \o <<"E">> :
        ws1 \in WhiteSpaces, ws2 \in WhiteSpaces,
        body \in {<<"{", "v", "}">>, <<"{", "v">>} }

\* a code fence, with or without the word json, around an object with the
\* members "w", whole or cut short
FencedBlocks ==
    { open \o ws \o body \o <<"F">> :
        open \in {<<"F", "j">>, <<"F">>}, ws \in WhiteSpaces,
        body \in {<<"{", "w", "}">>, <<"{", "w">>} }

\* the text of a block without its markers
BlockBody(block) ==
    SelectSeq(block, LAMBDA c : c \in {"{", "}", "v", "w"})

\* the LLM outputs: a tagged block, a fenced block, both in either order,
\* or neither, with prose or nothing around and between them
LlmOutputs ==
    [ tagged : TaggedBlocks \cup {<<>>},
      fenced : FencedBlocks \cup {<<>>},
      tagged_first : BOOLEAN,
      before : {<<>>, <<"x">>},
      between : {<<" ">>, <<"x">>},
      after : {<<>>, <<"x">>} ]

OutputText(o) ==
    IF o.tagged_first
        THEN o.before \o o.tagged \o o.between \o o.fenced \o o.after
        ELSE o.before \o o.fenced \o o.between \o o.tagged \o o.after

ParseIdle ==
    /\ pj_pc = "idle" /\ pj_output = None /\ json_output = <<>>
    /\ pj_result = None

ParseInit ==
    /\ pj_pc = "call"
    /\ pj_output \in LlmOutputs
    /\ json_output = OutputText(pj_output)
    /\ pj_result = None

\* result = parse_llm_json_output(json_output)
ParseOutput ==
    /\ pj_pc = "call"
    /\ pj_result' = parse_llm_json_output(json_output)
    /\ pj_pc' = "done"
    /\ UNCHANGED <<pj_output, json_output>>
    /\ UNCHANGED pjOthers

ParseNext == ParseOutput

----------------------------------------------------------------------------
(* main.py: the search command; global_search/router.py: SearchModeRouter  *)
(* Texts are sequences of characters; a character outside ASCII is named   *)
(* by its code point.                                                      *)

SearchModes == {"local", "global", "drift", "auto"}

\* kw in s, for strings
Contains(s, kw) ==
    \E i \in 0..(Len(s) - Len(kw)) :
        \A k \in 1..Len(kw) : s[i + k] = kw[k]

global_keywords ==
    << <<"U+5168", "U+4F53">>,
      <<"U+6982", "U+8981">>,
      <<"U+30B5", "U+30DE", "U+30EA", "U+30FC">>,
      <<"U+8981", "U+7D04">>,
      <<"U+307E", "U+3068", "U+3081">>,
      <<"o", "v", "e", "r", "a", "l", "l">>,
      <<"s", "u", "m", "m", "a", "r", "y">>,
      <<"o", "v", "e", "r", "v", "i", "e", "w">>,
      <<"g", "e", "n", "e", "r", "a", "l">> >>

local_keywords ==
    << <<"U+8A73", "U+7D30">>,
      <<"U+5177", "U+4F53", "U+7684">>,
      <<"U+7279", "U+5B9A">>,
      <<"d", "e", "t", "a", "i", "l">>,
      <<"s", "p", "e", "c", "i", "f", "i", "c">>,
      <<"p", "a", "r", "t", "i", "c", "u", "l", "a", "r">>,
      <<"e", "x", "a", "c", "t">> >>

\* any(kw in query_lower for kw in keywords)
AnyKeyword(query_lower, keywords) ==
    \E k \in 1..Len(keywords) : Contains(query_lower, keywords[k])

\* SearchModeRouter._auto_select_mode
auto_select_mode(self, query) ==
    LET query_lower == Lower(query)
    IN  IF AnyKeyword(query_lower, global_keywords)
               /\ self.global_retriever # "None"
            THEN "global"
        ELSE IF AnyKeyword(query_lower, local_keywords)
               /\ self.local_retriever # "None"
            THEN "local"
        ELSE IF self.global_retriever # "None" THEN "global"
        ELSE IF self.local_retriever # "None" THEN "local"
        ELSE "global"

\* SearchModeRouter.route
route(self, query, mode) ==
    IF mode # "None" THEN mode
    ELSE IF self.mode = "auto" THEN auto_select_mode(self, query)
    ELSE self.mode

\* CommunityContextBuilder._validate_community_weights raises ValueError
ValidationRaises(config) == ~config.include_community_weight

\* lines 52-54 of router.py: the local retriever the constructor builds
ConstructedLocalRetriever == "None"

\* SearchModeRouter.__init__: the router for the configuration, the mode and
\* the community vector store; construction_fails says that building the
\* GlobalSearchRetriever raised for a reason outside the configuration
NewRouter(config, mode, vector_store_community, construction_fails) ==
    [ mode |-> mode,
      local_retriever |-> ConstructedLocalRetriever,
      global_retriever |->
          IF vector_store_community # "None" \/ mode = "global"
              THEN IF ValidationRaises(config) \/ construction_fails
                       THEN "None"               \* except: logger.warning
                       ELSE "GlobalSearchRetriever"
              ELSE "None",
      drift_retriever |-> "None" ]

\* "give me an overall summary"
SummaryQuery ==
    <<"g", "i", "v", "e", " ", "m", "e", " ", "a", "n", " ", "o", "v",
    "e", "r", "a", "l", "l", " ", "s", "u", "m", "m", "a", "r", "y">>

\* "show me specific details about Alice"
DetailsQuery ==
    <<"s", "h", "o", "w", " ", "m", "e", " ", "s", "p", "e", "c", "i",
    "f", "i", "c", " ", "d", "e", "t", "a", "i", "l", "s", " ", "a",
    "b", "o", "u", "t", " ", "A", "l", "i", "c", "e">>

\* the queries the router is exercised on
Queries ==
    { SummaryQuery, DetailsQuery,
      <<"G", "i", "v", "e", " ", "m", "e", " ", "a", "n", " ", "O", "V",
        "E", "R", "A", "L", "L", " ", "v", "i", "e", "w">>,
      <<"w", "h", "o", " ", "i", "s", " ", "A", "l", "i", "c", "e">>,
      <<"e", "x", "a", "c", "t", " ", "o", "v", "e", "r", "v", "i", "e",
        "w">>,
      <<"U+30B5", "U+30DE", "U+30EA", "U+30FC">> }

\* what the retriever that SearchModeRouter._retrieve dispatches to may do:
\* return nodes, return nothing, or raise
RetrieverOutcomes(self, mode) ==
    IF mode = "local"
        THEN {"empty"}       \* not initialised, or _execute_local_search
    ELSE IF mode \in {"global", "drift"}
        THEN IF self.global_retriever = "None"
                 THEN {"empty"}
                 ELSE {"nodes", "empty", "raises"}
    ELSE {"empty"}

SearchIdle ==
    /\ rt_pc = "idle" /\ rt_config = "None" /\ router = "None"
    /\ rt_query = <<>> /\ selected_mode = "None" /\ rt_output = "None"
    /\ exit_code = "None"

\* the process starts the search command with a configuration and a query
SearchInit ==
    /\ rt_pc = "start"
    /\ rt_config \in [include_community_weight : BOOLEAN]
    /\ router = "None"
    /\ rt_query \in Queries
    /\ selected_mode = "None" /\ rt_output = "None" /\ exit_code = "None"

\* main.py lines 154-165: the router is constructed
ConstructRouter ==
    /\ rt_pc = "start"
    /\ \E mode \in SearchModes, vector_store_community \in {"None", "store"},
          construction_fails \in BOOLEAN :
           router' = NewRouter(rt_config, mode, vector_store_community,
                               construction_fails)
    /\ rt_pc' = "constructed"
    /\ UNCHANGED <<rt_config, rt_query, selected_mode, rt_output, exit_code>>
    /\ UNCHANGED rtOthers

\* main.py lines 167-193: router._retrieve and the display of its results;
\* an exception falls back to search_index, which answers or raises in its
\* turn; the process then ends
RunSearch ==
    /\ rt_pc = "constructed"
    /\ LET mode == route(router, rt_query, "None")
       IN  /\ selected_mode' = mode
           /\ \E outcome \in RetrieverOutcomes(router, mode) :
                  \/ /\ outcome = "nodes"
                     /\ rt_output' = "results"
                     /\ exit_code' = 0
                  \/ /\ outcome = "empty"
                     /\ rt_output' = "No results found."
                     /\ exit_code' = 0
                  \/ /\ outcome = "raises"
                     /\ rt_output' = "search_index"
                     /\ exit_code' \in {0, 1}
    /\ rt_pc' = "exited"
    /\ UNCHANGED <<rt_config, router, rt_query>>
    /\ UNCHANGED rtOthers

SearchNext ==
    \/ ConstructRouter
    \/ RunSearch

----------------------------------------------------------------------------
(* db_manager.py: the load_*_db and save_*_db functions on the table files *)

TableNames ==
    {"processed_files", "entities", "relationships", "communities",
     "community_summaries"}

MaxRows == 1

\* the DataFrames a save is given
RowsChoices == {[i \in 1..n |-> i] : n \in 0..MaxRows}

\* no file at the path
AbsentFile == [exists |-> FALSE, readable |-> FALSE, rows |-> <<>>]

\* a file that to_parquet wrote to its end
CompleteFile(rows) == [exists |-> TRUE, readable |-> TRUE, rows |-> rows]

\* a file that to_parquet opened and did not finish: it has no footer
PartialFile == [exists |-> TRUE, readable |-> FALSE, rows |-> <<>>]

\* load_*_db: the rows of the file, an empty DataFrame when there is no
\* file, an exception of read_parquet when the file cannot be read
load_db(file) ==
    IF ~file.exists THEN [raised |-> FALSE, rows |-> <<>>]
    ELSE IF file.readable THEN [raised |-> FALSE, rows |-> file.rows]
    ELSE [raised |-> TRUE, rows |-> <<>>]

\* what df.to_parquet(db_path) leaves at db_path when it raises: the old
\* file when it failed before opening the path, an unfinished file after
FailedWriteOutcomes(old) == {old, PartialFile}

StoreIdle ==
    /\ fs_pc = "idle" /\ files = <<>> /\ fs_table = "None"
    /\ fs_old = AbsentFile /\ fs_new = <<>> /\ fs_save_failed = FALSE
    /\ fs_loaded = "None"

\* an empty output directory
StoreInit ==
    /\ fs_pc = "ready"
    /\ files = [t \in TableNames |-> AbsentFile]
    /\ fs_table = "None"
    /\ fs_old = AbsentFile /\ fs_new = <<>> /\ fs_save_failed = FALSE
    /\ fs_loaded = "None"

\* save_*_db(df, dir): df.to_parquet(db_path) runs to its end
SaveTable ==
    /\ fs_pc = "ready"
    /\ \E t \in TableNames, rows \in RowsChoices :
           /\ files' = [files EXCEPT ![t] = CompleteFile(rows)]
           /\ fs_table' = t
           /\ fs_old' = files[t]
           /\ fs_new' = rows
    /\ fs_save_failed' = FALSE
    /\ fs_pc' = "saved"
    /\ UNCHANGED fs_loaded
    /\ UNCHANGED fsOthers

\* save_*_db(df, dir): df.to_parquet(db_path) raises
SaveTableFails ==
    /\ fs_pc = "ready"
    /\ \E t \in TableNames, rows \in RowsChoices :
           /\ \E left \in FailedWriteOutcomes(files[t]) :
                  files' = [files EXCEPT ![t] = left]
           /\ fs_table' = t
           /\ fs_old' = files[t]
           /\ fs_new' = rows
    /\ fs_save_failed' = TRUE
    /\ fs_pc' = "saved"
    /\ UNCHANGED fs_loaded
    /\ UNCHANGED fsOthers

\* load_*_db(dir) of the table saved last
LoadTable ==
    /\ fs_pc = "saved"
    /\ fs_loaded' = load_db(files[fs_table])
    /\ fs_pc' = "loaded"
    /\ UNCHANGED <<files, fs_table, fs_old, fs_new, fs_save_failed>>
    /\ UNCHANGED fsOthers

\* the next save
NextSave ==
    /\ fs_pc = "loaded"
    /\ fs_pc' = "ready"
    /\ UNCHANGED <<files, fs_table, fs_old, fs_new, fs_save_failed,
                   fs_loaded>>
    /\ UNCHANGED fsOthers

StoreNext ==
    \/ SaveTable
    \/ SaveTableFails
    \/ LoadTable
    \/ NextSave

----------------------------------------------------------------------------
(* drift_search/local_searcher.py: expand_context                          *)

\* lines 152-155: the rows in which the entity is the source or the target
RelatedRows(relationships, id) ==
    SelectSeq(relationships, LAMBDA rel : rel.source = id \/ rel.target = id)

\* lines 159-161: the other entity of the relationship
OtherId(rel, id) == IF rel.source = id THEN rel.target ELSE rel.source

\* lines 173-175: the rows of the Entity table with the id
EntityData(entity_table, id) ==
    SelectSeq(entity_table, LAMBDA row : row.id = id)

\* an expansion that follows relationships to entities it has seen before
NeverVisited(id, visited) == TRUE

\* line 163: if other_id not in visited
NotVisited(id, visited) == id \notin visited

\* lines 157-187: the loop over the rows of one entity of the current
\* layer; acc holds visited, expanded and next_layer
RECURSIVE VisitRows(_, _, _, _)
VisitRows(acc, rows, id, entity_table) ==
    IF rows = <<>> THEN acc
    ELSE LET other_id == OtherId(Head(rows), id)
             other_data == EntityData(entity_table, other_id)
             seen == [acc EXCEPT !.visited = @ \cup {other_id}]
             after ==
                 IF ~NotVisited(other_id, acc.visited) THEN acc
                 ELSE IF other_data = <<>> THEN seen
                 ELSE [seen EXCEPT
                          !.next_layer = Append(@, Head(other_data)),
                          !.expanded = Append(@, Head(other_data))]
         IN  VisitRows(after, Tail(rows), id, entity_table)

\* lines 150-187: the loop over the entities of the current layer
RECURSIVE VisitLayer(_, _, _, _)
VisitLayer(acc, layer, relationships, entity_table) ==
    IF layer = <<>> THEN acc
    ELSE VisitLayer(
             VisitRows(acc, RelatedRows(relationships, Head(layer).id),
                       Head(layer).id, entity_table),
             Tail(layer), relationships, entity_table)

\* lines 147-192: the loop over the hops
RECURSIVE ExpandHops(_, _, _, _, _)
ExpandHops(acc, current_layer, hops_left, relationships, entity_table) ==
    IF hops_left = 0 \/ current_layer = <<>> THEN acc.expanded
    ELSE LET after == VisitLayer([acc EXCEPT !.next_layer = <<>>],
                                 current_layer, relationships, entity_table)
         IN  ExpandHops(after, after.next_layer, hops_left - 1,
                        relationships, entity_table)

expand_context(entities, hops, relationships, entity_table) ==
    IF entities = <<>> \/ hops <= 0 THEN entities
    ELSE ExpandHops([visited |-> {entities[i].id : i \in 1..Len(entities)},
                     expanded |-> entities,
                     next_layer |-> <<>>],
                    entities, hops, relationships, entity_table)

\* ---- the tables the expansion is exercised on
MaxHops == 3

EntityIds == {"1", "M", "A", "B", "Y", "Z"}

EntityRow(id) == [id |-> id, name |-> id]

Rel(source, target) == [source |-> source, target |-> target]

\* the relationships a table may hold: two ways from "1" to "Y", a way to
\* "Z", and a relationship that closes a cycle
RelationshipUniverse ==
    <<Rel("1", "M"), Rel("M", "Y"), Rel("1", "A"), Rel("A", "B"),
      Rel("B", "Z"), Rel("B", "Y"), Rel("Z", "1")>>

Reverse(q) == [i \in 1..Len(q) |-> q[Len(q) + 1 - i]]

\* every selection of the relationships, in the order above or reversed
RelationshipTables ==
    LET pick(S) == SelectSeq(RelationshipUniverse, LAMBDA rel : rel \in S)
        rows == {RelationshipUniverse[i] :
                     i \in 1..Len(RelationshipUniverse)}
    IN  {pick(S) : S \in SUBSET rows}
            \cup {Reverse(pick(S)) : S \in SUBSET rows}

\* the Entity table: every entity, or every entity but "M"
EntityTables ==
    { <<EntityRow("1"), EntityRow("M"), EntityRow("A"), EntityRow("B"),
        EntityRow("Y"), EntityRow("Z")>>,
      <<EntityRow("1"), EntityRow("A"), EntityRow("B"), EntityRow("Y"),
        EntityRow("Z")>> }

\* what search_entities found: entities with different ids
InitialEntities ==
    { <<>>, <<EntityRow("1")>>, <<EntityRow("1"), EntityRow("A")>>,
      <<EntityRow("A"), EntityRow("1")>> }

ExpandIdle ==
    /\ ex_pc = "idle" /\ ex_entities = <<>> /\ max_hops = 0
    /\ relationships_cache = <<>> /\ entities_cache = <<>>
    /\ expanded = <<>>

ExpandInit ==
    /\ ex_pc = "start"
    /\ ex_entities \in InitialEntities
    /\ max_hops \in 0..MaxHops
    /\ relationships_cache \in RelationshipTables
    /\ entities_cache \in EntityTables
    /\ expanded = <<>>

\* expand_context(entities, max_hops)
Expand ==
    /\ ex_pc = "start"
    /\ expanded' = expand_context(ex_entities, max_hops,
                                  relationships_cache, entities_cache)
    /\ ex_pc' = "done"
    /\ UNCHANGED <<ex_entities, max_hops, relationships_cache,
                   entities_cache>>
    /\ UNCHANGED exOthers

ExpandNext == Expand

----------------------------------------------------------------------------
(* drift_search/response_generator.py: stream_response                     *)

\* a loop that yields whenever the buffer holds anything
BufferNotEmpty(buf, size) == Len(buf) > 0

\* line 178: while len(buffer) >= self.chunk_size
BufferFull(buf, size) == Len(buf) >= size

\* lines 178-180: the chunks cut off the buffer; acc holds the chunks
\* yielded and what is left of the buffer
RECURSIVE YieldFullChunks(_, _)
YieldFullChunks(acc, size) ==
    IF BufferFull(acc.buffer, size)
        THEN YieldFullChunks(
                 [yielded |-> Append(acc.yielded,
                                     Slice(acc.buffer, 1, Min2(size,
                                                     Len(acc.buffer)))),
                  buffer |-> Slice(acc.buffer, size + 1, Len(acc.buffer))],
                 size)
        ELSE acc

\* line 188: the chunk yielded for an exception: the 32 characters of the
\* fixed text, then str(e)
ErrorChunk == Rep("!", 32) \o <<"e">>

\* ---- the streams the generator is exercised on
MaxDeltas == 4

MaxChunkSize == 3

\* the texts of the deltas of the LLM stream
Deltas ==
    { <<>>, <<"a">>, <<"b", "c">>, <<"d", "e", "f", "g", "h", "i", "j">> }

\* what generate_response may return when streaming is switched off
Responses == { <<"r">>, <<"r", "e", "s", "p", "o", "n", "s", "e">> }

StreamIdle ==
    /\ sr_pc = "idle" /\ streaming_enabled = FALSE /\ chunk_size = 0
    /\ deltas_seen = 0 /\ buffer = <<>> /\ yielded = <<>>

\* __init__ (lines 35-36) and the call of stream_response
StreamInit ==
    /\ sr_pc = "start"
    /\ streaming_enabled \in BOOLEAN
    /\ chunk_size \in 1..MaxChunkSize
    /\ deltas_seen = 0
    /\ buffer = <<>>
    /\ yielded = <<>>

\* lines 136-140: without streaming the whole response is yielded
YieldWholeResponse ==
    /\ sr_pc = "start"
    /\ ~streaming_enabled
    /\ \E response \in Responses : yielded' = <<response>>
    /\ sr_pc' = "ended"
    /\ UNCHANGED <<streaming_enabled, chunk_size, deltas_seen, buffer>>
    /\ UNCHANGED srOthers

\* lines 166-180: one pass of the loop over the stream: the delta is added
\* to the buffer and the full chunks are yielded
ReceiveDelta ==
    /\ sr_pc = "start"
    /\ streaming_enabled
    /\ deltas_seen < MaxDeltas
    /\ \E chunk_text \in Deltas :
           LET after == YieldFullChunks(
                            [yielded |-> yielded,
                             buffer |-> buffer \o chunk_text], chunk_size)
           IN  /\ yielded' = after.yielded
               /\ buffer' = after.buffer
    /\ deltas_seen' = deltas_seen + 1
    /\ UNCHANGED <<sr_pc, streaming_enabled, chunk_size>>
    /\ UNCHANGED srOthers

\* lines 182-184: the stream is over, the rest of the buffer is yielded
StreamEnds ==
    /\ sr_pc = "start"
    /\ streaming_enabled
    /\ yielded' = IF buffer # <<>> THEN Append(yielded, buffer) ELSE yielded
    /\ sr_pc' = "ended"
    /\ UNCHANGED <<streaming_enabled, chunk_size, deltas_seen, buffer>>
    /\ UNCHANGED srOthers

\* lines 186-188: astream_chat or the stream raises; the message is yielded
StreamRaises ==
    /\ sr_pc = "start"
    /\ streaming_enabled
    /\ yielded' = Append(yielded, ErrorChunk)
    /\ sr_pc' = "ended"
    /\ UNCHANGED <<streaming_enabled, chunk_size, deltas_seen, buffer>>
    /\ UNCHANGED srOthers

StreamNext ==
    \/ YieldWholeResponse
    \/ ReceiveDelta
    \/ StreamEnds
    \/ StreamRaises

----------------------------------------------------------------------------
(* drift_search/drift_search_engine.py: _search_streaming,                 *)
(* get_last_context                                                        *)

\* getattr(self, "_last_context", None) before any search has stored one,
\* and a search that built no context, as values that compare with the
\* contexts
NoContext == [is_none |-> TRUE]

\* SearchContext.to_dict (models.py)
to_dict(ctx) ==
    [query |-> ctx.query, entities |-> ctx.entities,
     communities |-> ctx.communities, text_units |-> ctx.text_units,
     metadata |-> <<>>]

\* get_last_context
get_last_context(stored) == stored

\* ---- the searches the engine is exercised on
MaxSearches == 2

MaxChunks == 1

Searches == 1..MaxSearches

DriftQueries == {Rep("q", 4), Rep("r", 4)}

\* lines 168-172: what build_search_context makes of the results found
BuiltContexts(query) ==
    { [query |-> query,
       entities |-> [i \in 1..n |-> EntityAt(i)],
       communities |-> <<CommunityAt(1)>>,
       text_units |-> <<TextUnitAt(1)>>] : n \in 0..1 }

Active(s) == ds_pc[s] \in {"searching", "streaming"}

DriftIdle ==
    /\ ds_pc = <<>> /\ ds_max_tokens = 0 /\ ds_query = <<>>
    /\ include_context = <<>> /\ ds_context = <<>> /\ ds_chunks = <<>>
    /\ last_context = NoContext /\ ds_got = <<>> /\ overlapped = <<>>

\* __init__: an engine on which no search has run
DriftInit ==
    /\ ds_pc = [s \in Searches |-> "idle"]
    /\ ds_max_tokens \in {5, 8}
    /\ ds_query = [s \in Searches |-> <<>>]
    /\ include_context = [s \in Searches |-> FALSE]
    /\ ds_context = [s \in Searches |-> NoContext]
    /\ ds_chunks = [s \in Searches |-> 0]
    /\ last_context = NoContext
    /\ ds_got = [s \in Searches |-> NoContext]
    /\ overlapped = [s \in Searches |-> FALSE]

\* search(query, streaming=True, include_context): the generator is
\* created and its consumer starts to read it
StartSearch(s) ==
    /\ ds_pc[s] = "idle"
    /\ ds_pc' = [ds_pc EXCEPT ![s] = "searching"]
    /\ \E query \in DriftQueries :
           ds_query' = [ds_query EXCEPT ![s] = query]
    /\ \E flag \in BOOLEAN :
           include_context' = [include_context EXCEPT ![s] = flag]
    /\ overlapped' =
           [t \in Searches |->
               IF \E u \in Searches \ {s} : Active(u)
                   THEN (t = s \/ Active(t) \/ overlapped[t])
                   ELSE overlapped[t]]
    /\ UNCHANGED <<ds_max_tokens, ds_context, ds_chunks, last_context,
                   ds_got>>
    /\ UNCHANGED dsOthers

\* lines 146-180: the local and global searches have answered; the context
\* is built and trimmed, and stored when include_context is set
BuildContext(s) ==
    /\ ds_pc[s] = "searching"
    /\ \E built \in BuiltContexts(ds_query[s]) :
           LET context == trim_to_token_limit(built, ds_max_tokens)
           IN  /\ ds_context' = [ds_context EXCEPT ![s] = context]
               /\ last_context' = IF include_context[s]
                                      THEN to_dict(context)
                                      ELSE last_context
    /\ ds_pc' = [ds_pc EXCEPT ![s] = "streaming"]
    /\ UNCHANGED <<ds_max_tokens, ds_query, include_context, ds_chunks,
                   ds_got, overlapped>>
    /\ UNCHANGED dsOthers

\* lines 186-188: a search or the building of the context raises; the
\* message is the only chunk of the stream
SearchRaises(s) ==
    /\ ds_pc[s] = "searching"
    /\ ds_pc' = [ds_pc EXCEPT ![s] = "streaming"]
    /\ ds_chunks' = [ds_chunks EXCEPT ![s] = MaxChunks]
    /\ UNCHANGED <<ds_max_tokens, ds_query, include_context, ds_context,
                   last_context, ds_got, overlapped>>
    /\ UNCHANGED dsOthers

\* lines 183-184: a chunk of the response is yielded to the consumer
YieldChunk(s) ==
    /\ ds_pc[s] = "streaming"
    /\ ds_chunks[s] < MaxChunks
    /\ ds_chunks' = [ds_chunks EXCEPT ![s] = @ + 1]
    /\ UNCHANGED <<ds_pc, ds_max_tokens, ds_query, include_context,
                   ds_context, last_context, ds_got, overlapped>>
    /\ UNCHANGED dsOthers

\* the stream is exhausted and its consumer calls get_last_context
EndOfStream(s) ==
    /\ ds_pc[s] = "streaming"
    /\ ds_chunks[s] = MaxChunks
    /\ ds_pc' = [ds_pc EXCEPT ![s] = "ended"]
    /\ ds_got' = [ds_got EXCEPT ![s] = get_last_context(last_context)]
    /\ UNCHANGED <<ds_max_tokens, ds_query, include_context, ds_context,
                   ds_chunks, last_context, overlapped>>
    /\ UNCHANGED dsOthers

DriftNext ==
    \/ \E s \in Searches : StartSearch(s)
    \/ \E s \in Searches : BuildContext(s)
    \/ \E s \in Searches : SearchRaises(s)
    \/ \E s \in Searches : YieldChunk(s)
    \/ \E s \in Searches : EndOfStream(s)

----------------------------------------------------------------------------
(* global_search/map_processor.py: extract_key_points, _extract_from_text, *)
(* _extract_metadata                                                       *)

(* The response of the LLM is a sequence of tokens.  A token is a record    *)
(* with its text and the number of its characters; the token of a JSON     *)
(* value also has the value json.loads gives for it.  A JSON list is       *)
(* [kind |-> "list", items |-> ...], a JSON object is [kind |-> "dict",    *)
(* members |-> ...], and an item that is no object is [scalar |-> ...].    *)
Token(text, len) == [text |-> text, len |-> len]

\* a code fence: three backticks
Fence == Token("FENCE", 3)

JsonWord == Token("json", 4)

StartTag == Token("[START_JSON]", 12)

EndTag == Token("[END_JSON]", 10)

Space == Token(" ", 1)

Prose == Token("a paragraph of prose", 30)

JsonToken(text, len, value) == [text |-> text, len |-> len, value |-> value]

IsJsonToken(tok) == "value" \in DOMAIN tok

\* str.strip on a sequence of tokens
StripSpaces(toks) ==
    LET keep == {i \in 1..Len(toks) : toks[i] # Space}
    IN  IF keep = {} THEN <<>>
        ELSE Slice(toks, CHOOSE i \in keep : \A j \in keep : i <= j,
                   CHOOSE i \in keep : \A j \in keep : j <= i)

\* line 183: re.search for a fence, the word json, any text (as little as
\* possible) and a fence: the first fence followed by the word json, up to
\* the next fence
JsonBlockMatch(response) ==
    LET opens == {i \in 1..(Len(response) - 1) :
                     /\ response[i] = Fence /\ response[i + 1] = JsonWord
                     /\ \E k \in (i + 2)..Len(response) : response[k] = Fence}
        start == CHOOSE i \in opens : \A j \in opens : i <= j
        close == CHOOSE k \in (start + 2)..Len(response) :
                     /\ response[k] = Fence
                     /\ \A j \in (start + 2)..(k - 1) : response[j] # Fence
    IN  IF opens = {} THEN [found |-> FALSE]
        ELSE [found |-> TRUE,
              group |-> StripSpaces(Slice(response, start + 2, close - 1))]

\* json.loads raises JSONDecodeError unless the text is one JSON value
JsonDecodes(toks) == Len(toks) = 1 /\ IsJsonToken(toks[1])

\* dict.get(key, default)
Get(dict, key, default) ==
    IF key \in DOMAIN dict THEN dict[key] ELSE default

\* _extract_metadata: the metadata of the records whose id is in report_ids;
\* list(set(...)) leaves the lists without duplicates and in no fixed order
extract_metadata(records, report_ids) ==
    LET ids == {report_ids[i] : i \in 1..Len(report_ids)}
        hit == {i \in 1..Len(records) : Get(records[i], "id", "") \in ids}
        meta(i) == Get(records[i], "metadata", [none |-> 0])
    IN  [document_ids |->
             {meta(i).document_id :
                 i \in {j \in hit : "document_id" \in DOMAIN meta(j)}},
         chunk_ids |->
             {meta(i).chunk_id :
                 i \in {j \in hit : "chunk_id" \in DOMAIN meta(j)}},
         entity_ids |->
             UNION {{meta(i).entity_ids[k] :
                        k \in 1..Len(meta(i).entity_ids)} :
                    i \in {j \in hit : "entity_ids" \in DOMAIN meta(j)}}]

KeyPoint(description, score, report_ids, source_metadata) ==
    [description |-> description, score |-> score,
     report_ids |-> report_ids, source_metadata |-> source_metadata]

\* lines 187-192: the points of the parsed data
PointsOf(data) ==
    IF data.kind = "dict" /\ "key_points" \in DOMAIN data.members
        THEN data.members.key_points
    ELSE IF data.kind = "list" THEN data.items
    ELSE <<>>

\* lines 194-202: one KeyPoint per point that is an object
StructuredKeyPoints(points, report_ids, records) ==
    LET dicts == SelectSeq(points, LAMBDA point : "scalar" \notin DOMAIN point)
    IN  [i \in 1..Len(dicts) |->
            KeyPoint(Get(dicts[i], "description", <<>>),
                     Get(dicts[i], "score", 50),
                     Get(dicts[i], "report_ids", FirstN(report_ids, 3)),
                     extract_metadata(records,
                                      Get(dicts[i], "report_ids", <<>>)))]

\* _extract_from_text for a response without blank lines and without list
\* items: one paragraph, kept if it has more than 20 characters
extract_from_text(text, report_ids, records) ==
    LET paragraph == StripSpaces(text)
        chars == SeqSum([i \in 1..Len(paragraph) |-> paragraph[i].len])
    IN  IF chars > 20
            THEN <<KeyPoint([i \in 1..Len(paragraph) |-> paragraph[i].text],
                            100, FirstN(report_ids, 3),
                            extract_metadata(records,
                                             FirstN(report_ids, 3)))>>
            ELSE <<>>

\* lines 182-184: the JSON text extract_key_points looks for
FindJson(response) == JsonBlockMatch(response)

extract_key_points(response, report_ids, records) ==
    LET json_match == FindJson(response)
    IN  IF json_match.found
            THEN IF JsonDecodes(json_match.group)
                     THEN StructuredKeyPoints(
                              PointsOf(json_match.group[1].value),
                              report_ids, records)
                     ELSE extract_from_text(response, report_ids, records)
            ELSE extract_from_text(response, report_ids, records)

\* ---- the responses and batches the extraction is exercised on
MaxRecords == 2

RecordAt(i) ==
    [id |-> <<"r", i>>,
     metadata |-> [document_id |-> <<"d", i>>, chunk_id |-> <<"c", i>>,
                   entity_ids |-> <<<<"e", i>>, <<"e", 0>>>>]]

\* the batches: one or two records, with or without metadata
KeyPointBatches ==
    { [i \in 1..n |-> RecordAt(i)] : n \in 1..MaxRecords }
        \cup {<<[id |-> <<"r", 1>>], RecordAt(2)>>}

\* the report ids a key point of the LLM may carry: all of the batch, some
\* of them, none, or no "report_ids" member at all
Point(description, score) ==
    [description |-> <<description>>, score |-> score]

PointWithIds(description, score, ids) ==
    [description |-> <<description>>, score |-> score, report_ids |-> ids]

PointLists(report_ids) ==
    { <<PointWithIds("Point 1", 85, report_ids)>>,
      <<PointWithIds("Point 1", 85, FirstN(report_ids, 1)),
        PointWithIds("Point 2", 75, report_ids)>>,
      <<PointWithIds("Point 1", 85, <<>>)>>,
      <<Point("Point 1", 85), [scalar |-> 1]>>,
      <<[description |-> <<"Point 1">>]>> }

JsonValues(report_ids) ==
    { [kind |-> "list", items |-> points] : points \in PointLists(report_ids) }
        \cup { [kind |-> "dict", members |-> [key_points |-> points]] :
                 points \in PointLists(report_ids) }
        \cup { [kind |-> "dict", members |-> [summary |-> <<"s">>]] }

\* the responses: JSON in a fence, in the markers, bare, with prose around
\* it, and prose alone
LlmResponses(report_ids) ==
    UNION { LET json == JsonToken("<json>", 40, value)
            IN  { <<Fence, JsonWord, Space, json, Space, Fence>>,
                  <<Prose, Space, Fence, JsonWord, json, Fence, Space>>,
                  <<Fence, JsonWord, json, Prose, Fence>>,
                  <<StartTag, Space, json, Space, EndTag>>,
                  <<json>>,
                  <<Space, json, Space>> } :
            value \in JsonValues(report_ids) }
        \cup { <<Prose>>, <<Space>>, <<Fence, JsonWord, Prose, Fence>> }

ReportIdsOf(records) == [i \in 1..Len(records) |-> records[i].id]

KeyPointsIdle ==
    /\ kp_pc = "idle" /\ llm_response = <<>> /\ kp_report_ids = <<>>
    /\ kp_records = <<>> /\ kp_result = <<>>

KeyPointsInit ==
    /\ kp_pc = "start"
    /\ kp_records \in KeyPointBatches
    /\ kp_report_ids = ReportIdsOf(kp_records)
    /\ llm_response \in LlmResponses(kp_report_ids)
    /\ kp_result = <<>>

\* lines 125-129: extract_key_points(response, batch["report_ids"],
\* batch["records"])
ExtractKeyPoints ==
    /\ kp_pc = "start"
    /\ kp_result' = extract_key_points(llm_response, kp_report_ids,
                                       kp_records)
    /\ kp_pc' = "done"
    /\ UNCHANGED <<llm_response, kp_report_ids, kp_records>>
    /\ UNCHANGED kpOthers

KeyPointsNext == ExtractKeyPoints

----------------------------------------------------------------------------
(* Specifications: one per subsystem, the others idle                      *)

InitStitch ==
    /\ StitchInit /\ GatewayIdle /\ BatchIdle /\ MapIdle /\ ReduceIdle
    /\ TrimIdle /\ IngestIdle /\ ParseIdle /\ SearchIdle /\ StoreIdle
    /\ ExpandIdle /\ StreamIdle /\ DriftIdle /\ KeyPointsIdle

SpecStitch == InitStitch /\ [][StitchNext]_vars

InitGateway ==
    /\ StitchIdle /\ GatewayInit /\ BatchIdle /\ MapIdle /\ ReduceIdle
    /\ TrimIdle /\ IngestIdle /\ ParseIdle /\ SearchIdle /\ StoreIdle
    /\ ExpandIdle /\ StreamIdle /\ DriftIdle /\ KeyPointsIdle

SpecGateway == InitGateway /\ [][GatewayNext]_vars

InitBatch ==
    /\ StitchIdle /\ GatewayIdle /\ BatchInit /\ MapIdle /\ ReduceIdle
    /\ TrimIdle /\ IngestIdle /\ ParseIdle /\ SearchIdle /\ StoreIdle
    /\ ExpandIdle /\ StreamIdle /\ DriftIdle /\ KeyPointsIdle

SpecBatch == InitBatch /\ [][BatchNext]_vars

InitMap ==
    /\ StitchIdle /\ GatewayIdle /\ BatchIdle /\ MapInit /\ ReduceIdle
    /\ TrimIdle /\ IngestIdle /\ ParseIdle /\ SearchIdle /\ StoreIdle
    /\ ExpandIdle /\ StreamIdle /\ DriftIdle /\ KeyPointsIdle

SpecMap == InitMap /\ [][MapNext]_vars

InitReduce ==
    /\ StitchIdle /\ GatewayIdle /\ BatchIdle /\ MapIdle /\ ReduceInit
    /\ TrimIdle /\ IngestIdle /\ ParseIdle /\ SearchIdle /\ StoreIdle
    /\ ExpandIdle /\ StreamIdle /\ DriftIdle /\ KeyPointsIdle

SpecReduce == InitReduce /\ [][ReduceNext]_vars

InitTrim ==
    /\ StitchIdle /\ GatewayIdle /\ BatchIdle /\ MapIdle /\ ReduceIdle
    /\ TrimInit /\ IngestIdle /\ ParseIdle /\ SearchIdle /\ StoreIdle
    /\ ExpandIdle /\ StreamIdle /\ DriftIdle /\ KeyPointsIdle

SpecTrim == InitTrim /\ [][TrimNext]_vars

InitIngest ==
    /\ StitchIdle /\ GatewayIdle /\ BatchIdle /\ MapIdle /\ ReduceIdle
    /\ TrimIdle /\ IngestInit /\ ParseIdle /\ SearchIdle /\ StoreIdle
    /\ ExpandIdle /\ StreamIdle /\ DriftIdle /\ KeyPointsIdle

SpecIngest == InitIngest /\ [][IngestNext]_vars

InitParse ==
    /\ StitchIdle /\ GatewayIdle /\ BatchIdle /\ MapIdle /\ ReduceIdle
    /\ TrimIdle /\ IngestIdle /\ ParseInit /\ SearchIdle /\ StoreIdle
    /\ ExpandIdle /\ StreamIdle /\ DriftIdle /\ KeyPointsIdle

SpecParse == InitParse /\ [][ParseNext]_vars

InitSearch ==
    /\ StitchIdle /\ GatewayIdle /\ BatchIdle /\ MapIdle /\ ReduceIdle
    /\ TrimIdle /\ IngestIdle /\ ParseIdle /\ SearchInit /\ StoreIdle
    /\ ExpandIdle /\ StreamIdle /\ DriftIdle /\ KeyPointsIdle

SpecSearch == InitSearch /\ [][SearchNext]_vars

InitStore ==
    /\ StitchIdle /\ GatewayIdle /\ BatchIdle /\ MapIdle /\ ReduceIdle
    /\ TrimIdle /\ IngestIdle /\ ParseIdle /\ SearchIdle /\ StoreInit
    /\ ExpandIdle /\ StreamIdle /\ DriftIdle /\ KeyPointsIdle

SpecStore == InitStore /\ [][StoreNext]_vars

InitExpand ==
    /\ StitchIdle /\ GatewayIdle /\ BatchIdle /\ MapIdle /\ ReduceIdle
    /\ TrimIdle /\ IngestIdle /\ ParseIdle /\ SearchIdle /\ StoreIdle
    /\ ExpandInit /\ StreamIdle /\ DriftIdle /\ KeyPointsIdle

SpecExpand == InitExpand /\ [][ExpandNext]_vars

InitStream ==
    /\ StitchIdle /\ GatewayIdle /\ BatchIdle /\ MapIdle /\ ReduceIdle
    /\ TrimIdle /\ IngestIdle /\ ParseIdle /\ SearchIdle /\ StoreIdle
    /\ ExpandIdle /\ StreamInit /\ DriftIdle /\ KeyPointsIdle

SpecStream == InitStream /\ [][StreamNext]_vars

InitDrift ==
    /\ StitchIdle /\ GatewayIdle /\ BatchIdle /\ MapIdle /\ ReduceIdle
    /\ TrimIdle /\ IngestIdle /\ ParseIdle /\ SearchIdle /\ StoreIdle
    /\ ExpandIdle /\ StreamIdle /\ DriftInit /\ KeyPointsIdle

SpecDrift == InitDrift /\ [][DriftNext]_vars

InitKeyPoints ==
    /\ StitchIdle /\ GatewayIdle /\ BatchIdle /\ MapIdle /\ ReduceIdle
    /\ TrimIdle /\ IngestIdle /\ ParseIdle /\ SearchIdle /\ StoreIdle
    /\ ExpandIdle /\ StreamIdle /\ DriftIdle /\ KeyPointsInit

SpecKeyPoints == InitKeyPoints /\ [][KeyPointsNext]_vars

----------------------------------------------------------------------------
(* C8.  Stitching the same continuation on twice.                          *)

\* C8 as stated: for any strings a and b, of any length,
\* stitch(stitch(a, b), b) = stitch(a, b).
C8_StitchIdempotentAnyLength ==
    st_pc = "twice" => st_twice = st_once

\* C8 amended: for any string a and any string b no longer than the
\* 200-character overlap window, stitch(stitch(a, b), b) = stitch(a, b).
C8_StitchIdempotentWithinWindow ==
    (st_pc = "twice" /\ Len(st_s2) <= search_window) => st_twice = st_once

\* a non-empty continuation within the window that overlapped the prior text
C8_Witness ==
    /\ st_pc = "twice"
    /\ st_s1 # <<>>
    /\ Len(st_s2) > 1
    /\ Len(st_s2) <= search_window
    /\ Len(st_once) < Len(st_s1) + Len(st_s2)
    /\ Len(st_once) > Len(st_s1)
    /\ st_twice = st_once

----------------------------------------------------------------------------
(* C9.  The continuation budget.                                           *)

\* C9: whatever the provider answers, one logical call issues at most
\* max_continuation_attempts continuation calls and then ends: the number
\* of attempts never passes the budget, and as long as the call has not
\* ended (returned or raised) it can take a step, each step of the loop
\* using up one attempt.
C9_ContinuationsBounded ==
    /\ gw_continuations <= max_continuation_attempts
    /\ attempts <= max_continuation_attempts
    /\ gw_calls = attempts
    /\ (gw_pc \in {"done", "raised"} \/ ENABLED GatewayNext)
    /\ (gw_pc = "loop" /\ attempts >= max_continuation_attempts
            => ~ENABLED LoopIteration)

\* the provider never produced parseable text: the call returned with the
\* budget used up
C9_Witness ==
    /\ gw_pc = "done"
    /\ ~json_parse_successful
    /\ attempts = max_continuation_attempts
    /\ gw_continuations = max_continuation_attempts - 1

----------------------------------------------------------------------------
(* C10.  Continuation after a truncated response.                          *)

\* C10: while the budget is not used up, a response signalled as truncated
\* (stop reason max_tokens) is followed by a continuation call; so the call
\* never returns right after a truncated response with budget left.
C10_TruncatedIsContinued ==
    gw_pc = "done" =>
        ~(is_explicitly_truncated /\ attempts < max_continuation_attempts)

----------------------------------------------------------------------------
(* C2, C3.  Batching of the weighted reports.                              *)

\* how many times the report id occurs in the report_ids of the batch
IdCount(batch, id) ==
    Cardinality({j \in 1..Len(batch.report_ids) : batch.report_ids[j] = id})

\* C2: every report passed to _create_batches appears in exactly one of the
\* returned batches, once, as a record and as a report id; and the batches
\* hold nothing else.
C2_EachReportInExactlyOneBatch ==
    cb_pc = "done" =>
        /\ \A r \in 1..Len(cb_reports) :
               /\ SeqSum([b \in 1..Len(batches) |->
                             IdCount(batches[b], cb_reports[r].id)]) = 1
               /\ \E b \in 1..Len(batches) :
                      \E j \in 1..Len(batches[b].records) :
                          /\ batches[b].records[j] = cb_reports[r]
                          /\ batches[b].report_ids[j] = cb_reports[r].id
        /\ SeqSum([b \in 1..Len(batches) |-> Len(batches[b].records)])
               = Len(cb_reports)
        /\ \A b \in 1..Len(batches) :
               Len(batches[b].report_ids) = Len(batches[b].records)

\* the reports were split over more than one batch
C2_Witness ==
    /\ cb_pc = "done"
    /\ Len(cb_reports) = MaxReports
    /\ Len(batches) >= 2
    /\ \E b \in 1..Len(batches) : Len(batches[b].records) >= 2

\* C3: no returned batch has estimated tokens above max_context_tokens, the
\* estimate being _count_tokens of the batch's serialized context.
C3_BatchesWithinBudget ==
    cb_pc = "done" =>
        \A b \in 1..Len(batches) :
            count_tokens(batches[b].context) <= max_context_tokens

----------------------------------------------------------------------------
(* C4, C5.  The map phase.                                                 *)

\* C4: at no moment are more than max_concurrent map tasks in flight
\* (inside their LLM call), also after tasks have ended with an exception.
C4_AtMostMaxConcurrentInFlight ==
    Cardinality(InFlight) <= max_concurrent

\* the limit is reached while a task has failed and others are waiting
C4_Witness ==
    /\ Cardinality(InFlight) = max_concurrent
    /\ \E t \in Tasks : task_pc[t] = "raised"
    /\ \E t \in Tasks : task_pc[t] = "waiting"

\* C5: whatever subset of the map tasks raised, process_batch returns: one
\* result per batch, an empty MapResult (no key points) for each batch whose
\* task raised, and the task's own result, unchanged, for every other batch.
C5_FailedBatchesComeBackEmpty ==
    /\ mp_pc = "returned" =>
        /\ Len(map_results) = Len(mp_batches)
        /\ \A t \in Tasks :
               /\ task_pc[t] = "raised" =>
                      map_results[t] =
                          MapResult(t - 1, <<>>, mp_batches[t].tokens, 0)
               /\ task_pc[t] = "returned" => map_results[t] = results[t]
    /\ (mp_pc = "gather"
           /\ \A t \in Tasks : task_pc[t] \in {"returned", "raised"})
           => ENABLED CollectResults

\* process_batch returned although a task raised, and a task that succeeded
\* kept its key points
C5_Witness ==
    /\ mp_pc = "returned"
    /\ \E t \in Tasks : task_pc[t] = "raised"
    /\ \E t \in Tasks :
           task_pc[t] = "returned" /\ Len(map_results[t].key_points) = 2

----------------------------------------------------------------------------
(* C6.  The reduce fallback.                                               *)

\* the lines of a response that enumerate key points
ItemLines(response) == SelectSeq(response, LAMBDA l : l.line = "item")

\* the pooled key points, as the map results hold them
PooledKeyPoints ==
    UNION {{rd_map_results[b].key_points[i] :
                i \in 1..Len(rd_map_results[b].key_points)} :
           b \in 1..Len(rd_map_results)}

\* C6: when the reduce LLM call fails, reduce still returns a
\* GlobalSearchResult; its response enumerates, numbered from 1 and from the
\* highest score down, min(10, n) of the n pooled key points, none of them
\* scored lower than a key point left out, and ends with the note that the
\* response was generated automatically.
C6_FallbackListsTopTen ==
    (rd_pc = "done" /\ rd_llm_failed) =>
        LET response == rd_result.response
            items == ItemLines(response)
            listed == {kp \in PooledKeyPoints :
                          \E i \in 1..Len(items) :
                              items[i].text = kp.description}
        IN  /\ DOMAIN rd_result =
                   {"response", "response_type", "map_results",
                    "traceability", "total_tokens", "processing_time"}
            /\ rd_result.map_results = rd_map_results
            /\ Len(items) = Min2(10, Cardinality(PooledKeyPoints))
            /\ Cardinality(listed) = Len(items)
            /\ \A i \in 1..Len(items) : items[i].number = i
            /\ \A kp \in listed : \A other \in PooledKeyPoints \ listed :
                   kp.score >= other.score
            /\ \A i \in 1..Len(items) : \A k \in 1..Len(items) :
                   \A a \in listed : \A b \in listed :
                       (i < k /\ items[i].text = a.description
                              /\ items[k].text = b.description)
                           => a.score >= b.score
            /\ response[1] = [line |-> "query", text |-> rd_query]
            /\ response[Len(response)] = [line |-> "auto_generated_note"]
            /\ Len(response) = Len(items) + 4

\* the LLM call failed with more than 10 key points pooled, the best of
\* them not in the first map result
C6_Witness ==
    /\ rd_pc = "done"
    /\ rd_llm_failed
    /\ Cardinality(PooledKeyPoints) > 10
    /\ Len(ItemLines(rd_result.response)) = 10
    /\ \E kp \in PooledKeyPoints :
           /\ kp.description[1] # 1
           /\ kp.description = ItemLines(rd_result.response)[1].text

----------------------------------------------------------------------------
(* C7.  Trimming a DRIFT context.                                          *)

\* C7: for every context and every token limit T, the trimmed context's
\* token count is at most T.
C7_TrimmedWithinLimit ==
    tr_pc = "done" => get_token_count(tr_trimmed) <= tr_max_tokens

----------------------------------------------------------------------------
(* C1.  Running add_documents again on the same documents.                 *)

\* C1: when a run over the documents D ended without an exception and the
\* next run is over the same D, that run issues no LLM call, performs no
\* vector-index write, and leaves every persisted table as the first run
\* left it.
C1_RerunIsNoOp ==
    (run_no >= 2 /\ prev_ok /\ all_documents = prev_input) =>
        /\ ing_pc = "done"
        /\ llm_calls = 0
        /\ index_writes = 0
        /\ db = snap

\* the second run over documents that the first run ingested, with
\* entities, relationships, communities and summaries persisted
C1_Witness ==
    /\ run_no = 2 /\ prev_ok /\ all_documents = prev_input
    /\ ing_pc = "done"
    /\ Len(all_documents) = 2
    /\ Len(db.processed_files) = 2
    /\ db.entities # <<>> /\ db.relationships # <<>>
    /\ db.communities # <<>> /\ db.community_summaries # <<>>
    /\ index.main # <<>>

----------------------------------------------------------------------------
(* C11.  A tagged block and a fenced block in one output.                  *)

\* C11: for an output that holds both a [START_JSON]..[END_JSON] block with
\* valid JSON and a fenced block with valid JSON, in either order,
\* parse_llm_json_output returns the JSON of the tagged block.
C11_TaggedBlockWins ==
    (/\ pj_pc = "done"
     /\ IsJson(BlockBody(pj_output.tagged))
     /\ IsJson(BlockBody(pj_output.fenced))) =>
        /\ IsJson(ExtractJsonText(json_output))      \* not None
        /\ pj_result = BlockBody(pj_output.tagged)

\* the fenced block comes first, the tagged block after it, and the tagged
\* JSON is returned
C11_Witness ==
    /\ pj_pc = "done"
    /\ ~pj_output.tagged_first
    /\ IsJson(BlockBody(pj_output.tagged))
    /\ IsJson(BlockBody(pj_output.fenced))
    /\ pj_result = <<"{", "v", "}">>

----------------------------------------------------------------------------
(* C12.  The mode the router selects in auto mode.                         *)

\* C12 as stated: in auto mode a router as built by the constructor selects
\* global for "give me an overall summary" and local for "show me specific
\* details about Alice".
C12_AutoModeFollowsKeywords ==
    (rt_pc = "exited" /\ router.mode = "auto") =>
        /\ rt_query = SummaryQuery => selected_mode = "global"
        /\ rt_query = DetailsQuery => selected_mode = "local"

----------------------------------------------------------------------------
(* C18.  A configuration without community weights.                        *)

\* C18 as stated: a search command started with
\* global_search.include_community_weight = false ends with exit code 1 and
\* never with a search result, empty, fallback or otherwise.
C18_MissingWeightExitsWithCode1 ==
    (rt_pc = "exited" /\ ~rt_config.include_community_weight) =>
        /\ exit_code = 1
        /\ rt_output = "None"

----------------------------------------------------------------------------
(* C13.  One Entity record per lowercased (name, type).                    *)

\* C13 as stated: after any sequence of ingestion runs the persisted Entity
\* table holds at most one record per (name, type) pair compared after
\* lowercasing.
C13_OneEntityPerLowercasedKey ==
    \A i, j \in 1..Len(db.entities) :
        i # j =>
            <<Lower(db.entities[i].name), Lower(db.entities[i].type)>> #
            <<Lower(db.entities[j].name), Lower(db.entities[j].type)>>

----------------------------------------------------------------------------
(* C14.  The communities of a level partition the clustered graph.         *)

SeqToSet(q) == {q[i] : i \in 1..Len(q)}

\* C14 as stated: after any sequence of ingestion runs, for every level
\* present in the persisted Community table, the member sets of the
\* communities at that level are pairwise disjoint and their union is the
\* node set of the graph used for clustering (its largest connected
\* component).
C14_CommunitiesPartitionTheGraph ==
    (ing_pc = "done" /\ run.communities # <<>>) =>
        \A level \in {db.communities[i].level :
                         i \in 1..Len(db.communities)} :
            LET at_level == {i \in 1..Len(db.communities) :
                                db.communities[i].level = level}
            IN  /\ \A i, j \in at_level :
                       i # j => SeqToSet(db.communities[i].nodes) \cap
                                SeqToSet(db.communities[j].nodes) = {}
                /\ UNION {SeqToSet(db.communities[i].nodes) :
                             i \in at_level}
                       = SeqToSet(LargestComponent(
                                      run.extracted_relationships_list))

----------------------------------------------------------------------------
(* C15.  The order of the persistent writes of a run.                      *)

\* the place of a write in the order C15 states
StatedRank(what) ==
    CASE what = "main_index" -> 1
      [] what \in {"Entity", "Relationship"} -> 2
      [] what \in {"Community", "CommunitySummary", "community_index"} -> 3
      [] what = "entity_index" -> 4
      [] what = "ProcessedFile" -> 5

\* the place of a write in the order of the statements of add_documents
StatementRank(what) ==
    CASE what = "Entity" -> 1
      [] what = "Relationship" -> 2
      [] what = "Community" -> 3
      [] what = "CommunitySummary" -> 4
      [] what = "community_index" -> 5
      [] what = "main_index" -> 6
      [] what = "entity_index" -> 7
      [] what = "ProcessedFile" -> 8

\* C15 as stated: in every run with new documents the persistent writes
\* occur with the main index first, then the Entity and Relationship
\* tables, then the Community and CommunitySummary tables and the community
\* index, then the entity index, and the ProcessedFile table last.
C15_MainIndexWrittenFirst ==
    \A i, j \in 1..Len(run.writes) :
        i < j => StatedRank(run.writes[i]) <= StatedRank(run.writes[j])

\* C15, amended: in every run with new documents the persistent writes
\* occur in this order, a write without data being skipped: Entity table,
\* Relationship table, Community table, CommunitySummary table, community
\* index, main index, entity index, and the ProcessedFile table last.
C15_MainIndexWrittenAfterCommunities ==
    \A i, j \in 1..Len(run.writes) :
        i < j => StatementRank(run.writes[i]) < StatementRank(run.writes[j])

\* a run that ended after performing all eight writes
C15_Witness ==
    /\ ing_pc = "done"
    /\ Len(run.writes) = 8
    /\ run.writes[6] = "main_index"
    /\ run.writes[8] = "ProcessedFile"

----------------------------------------------------------------------------
(* C16.  A failure during community detection and summarization.           *)

\* C16 as stated: a failure anywhere in phase 6 (community detection,
\* summarization, community index write) aborts the run and leaves the
\* Entity and Relationship tables as phase 5 persisted them, and no
\* community of that run in the persisted Community table.
C16_Phase6FailureLeavesNoCommunities ==
    (/\ ing_pc = "failed"
     /\ run.failed_at \in {"communities", "entity_texts", "summarize",
                           "save_summaries", "community_index"}) =>
        /\ db.entities =
               IF run.extracted_entities_list = <<>> THEN snap.entities
               ELSE DropDuplicates(
                        snap.entities \o run.extracted_entities_list,
                        {"name", "type"})
        /\ db.relationships =
               IF run.extracted_relationships_list = <<>>
                   THEN snap.relationships
               ELSE DropDuplicates(
                        snap.relationships
                            \o run.extracted_relationships_list,
                        {"source", "target", "type", "description"})
        /\ db.communities = snap.communities

----------------------------------------------------------------------------
(* C17.  A save that fails partway.                                        *)

\* C17 as stated: every save replaces its table atomically: when a save
\* fails partway the old table is left intact, so the next load returns all
\* of the old rows or all of the new rows, never a partial or unreadable
\* table.
C17_SaveReplacesTableAtomically ==
    (fs_pc = "loaded" /\ fs_save_failed) =>
        /\ files[fs_table] = fs_old
        /\ ~fs_loaded.raised
        /\ fs_loaded.rows \in {load_db(fs_old).rows, fs_new}

----------------------------------------------------------------------------
(* C19.  The key points of the reduce prompt.                              *)

\* the pooled key points in the order they were produced: batch order, then
\* the position within the batch
ProducedOrder ==
    AllKeyPoints(rd_map_results)

\* where a key point stands in the order of production
ProducedAt(kp) ==
    CHOOSE i \in 1..Len(ProducedOrder) : ProducedOrder[i] = kp

\* x comes before y in a stable sort by score, descending
SortsBefore(x, y) ==
    \/ x.score > y.score
    \/ x.score = y.score /\ ProducedAt(x) < ProducedAt(y)

\* C19: the key points that reduce feeds to the reduce prompt are the first
\* min(20, n) of the n pooled key points sorted by score, descending, with a
\* stable sort: key points with equal scores keep the order in which they
\* were produced.
C19_PromptHoldsStableTopTwenty ==
    (rd_pc = "done") =>
        LET top == rd_prompt_key_points
            chosen == {top[k] : k \in 1..Len(top)}
            pooled == {ProducedOrder[i] : i \in 1..Len(ProducedOrder)}
        IN  /\ Len(top) = Min2(20, Len(ProducedOrder))
            /\ chosen \subseteq pooled
            /\ \A k, l \in 1..Len(top) :
                   k < l => SortsBefore(top[k], top[l])
            /\ \A x \in pooled \ chosen :
                   \A k \in 1..Len(top) : SortsBefore(top[k], x)

\* more than 20 key points were pooled, and two key points of different
\* batches with the same score are next to each other in the prompt
C19_Witness ==
    /\ rd_pc = "done"
    /\ Len(ProducedOrder) > 20
    /\ Len(rd_prompt_key_points) = 20
    /\ \E k \in 1..19 :
           /\ rd_prompt_key_points[k].score
                  = rd_prompt_key_points[k + 1].score
           /\ rd_prompt_key_points[k].report_ids
                  # rd_prompt_key_points[k + 1].report_ids

----------------------------------------------------------------------------
(* C20.  The order of the map results.                                     *)

\* the tasks finished in an order other than the order of the batches
FinishedOutOfOrder ==
    \E k, l \in 1..Len(done_order) : k < l /\ done_order[k] > done_order[l]

\* C20: for every order in which the map tasks complete, process_batch
\* returns a list as long as the batch list; its element at position i
\* (0-based) is the result for batch i and carries batch_id = i, whether the
\* batch succeeded or failed.
C20_ResultsFollowBatchOrder ==
    (mp_pc = "returned") =>
        /\ Len(map_results) = Len(mp_batches)
        /\ \A i \in 0..(Len(mp_batches) - 1) :
               LET result == map_results[i + 1]
               IN  /\ result.batch_id = i
                   /\ result.context_tokens = mp_batches[i + 1].tokens
                   /\ \A p \in 1..Len(result.key_points) :
                          result.key_points[p].description[1] = i

\* process_batch has returned after a later batch finished before an earlier
\* one, with a failed and a successful batch among them
C20_Witness ==
    /\ mp_pc = "returned"
    /\ FinishedOutOfOrder
    /\ \E s, f \in Tasks :
           /\ task_pc[s] = "returned" /\ task_pc[f] = "raised"
           /\ map_results[s].key_points # <<>>
           /\ map_results[s].batch_id = s - 1
           /\ map_results[f].batch_id = f - 1

----------------------------------------------------------------------------
(* C26.  The graph that a run clusters.                                    *)

\* C26: the graph that an ingestion run clusters has an edge for every row
\* of the persisted Relationship table, the rows of earlier runs included.
C26_GraphCoversRelationshipTable ==
    (ing_pc = "communities" /\ GraphRelationships # <<>>) =>
        \A i \in 1..Len(db.relationships) :
            {db.relationships[i].source, db.relationships[i].target}
                \in GraphEdges(GraphRelationships)

----------------------------------------------------------------------------
(* C28.  The hashes of an aborted run.                                     *)

\* a new run starts on the input of the run before it
RerunOfSameInput ==
    /\ run_no' = run_no + 1
    /\ all_documents' = all_documents

----------------------------------------------------------------------------
(* C29.  The rows of the ProcessedFile table.                              *)

\* C29: after any sequence of runs the persisted ProcessedFile table has at
\* most one row per content hash.
C29_OneRowPerHash ==
    Cardinality(HashesOf(db.processed_files)) = Len(db.processed_files)

----------------------------------------------------------------------------
(* C22.  The order in which trimming drops items.                          *)

\* q is what is left of p after items were popped from its end
IsPrefix(q, p) ==
    Len(q) <= Len(p) /\ \A i \in 1..Len(q) : q[i] = p[i]

\* C22: trim_to_token_limit drops text units first, then entities, then
\* communities: in its result an entity is missing only if no text unit is
\* left, and a community is missing only if no entity is left; what is left
\* of every list is its beginning.
C22_DropsTextUnitsThenEntitiesThenCommunities ==
    (tr_pc = "done") =>
        /\ tr_trimmed.query = tr_context.query
        /\ IsPrefix(tr_trimmed.text_units, tr_context.text_units)
        /\ IsPrefix(tr_trimmed.entities, tr_context.entities)
        /\ IsPrefix(tr_trimmed.communities, tr_context.communities)
        /\ Len(tr_trimmed.entities) < Len(tr_context.entities)
               => tr_trimmed.text_units = <<>>
        /\ Len(tr_trimmed.communities) < Len(tr_context.communities)
               => tr_trimmed.entities = <<>>

\* a context with text units of which entities were dropped and one entity
\* was kept
C22_Witness ==
    /\ tr_pc = "done"
    /\ tr_context.text_units # <<>>
    /\ tr_trimmed.text_units = <<>>
    /\ Len(tr_trimmed.entities) < Len(tr_context.entities)
    /\ tr_trimmed.entities # <<>>
    /\ tr_trimmed.communities = tr_context.communities
    /\ tr_context.communities # <<>>

----------------------------------------------------------------------------
(* C21.  The order of the expanded entities.                               *)

InitialIds == {ex_entities[i].id : i \in 1..Len(ex_entities)}

\* the ids that have a row in the Entity table
IdsWithRow == {entities_cache[i].id : i \in 1..Len(entities_cache)}

\* the ids one relationship away from an id of S
Neighbours(S) ==
    LET rows == {relationships_cache[i] : i \in 1..Len(relationships_cache)}
    IN  {rel.target : rel \in {r \in rows : r.source \in S}}
            \cup {rel.source : rel \in {r \in rows : r.target \in S}}

\* the ids at most k relationships away from an initial entity, on a way
\* that passes only through ids of the set through
RECURSIVE Within(_, _)
Within(k, through) ==
    IF k = 0 THEN InitialIds
    ELSE Within(k - 1, through)
             \cup (Neighbours(Within(k - 1, through)) \cap through)

\* the number of relationships between an id and the nearest initial entity
HopsTo(id, through) ==
    CHOOSE k \in 0..Cardinality(EntityIds) :
        /\ id \in Within(k, through)
        /\ k > 0 => id \notin Within(k - 1, through)

\* the expanded list starts with the initial entities, names no id twice,
\* and its other entities are in the order of their hops, none more than
\* max_hops; hops are counted on ways through the ids of the set through
ExpandedInHopOrder(through) ==
    /\ Len(expanded) >= Len(ex_entities)
    /\ \A i \in 1..Len(ex_entities) : expanded[i] = ex_entities[i]
    /\ \A k, l \in 1..Len(expanded) :
           k # l => expanded[k].id # expanded[l].id
    /\ \A k \in (Len(ex_entities) + 1)..Len(expanded) :
           /\ expanded[k].id \in Within(max_hops, through)
           /\ \A l \in (k + 1)..Len(expanded) :
                  HopsTo(expanded[k].id, through)
                      <= HopsTo(expanded[l].id, through)

\* C21 as stated: for any relationship table, cyclic ones included,
\* expand_context returns the initial entities first, in their order, then
\* the newly discovered entities in the order of their hops (every entity
\* nearer to the initial entities before any entity farther from them), no
\* id twice and no entity farther than max_hops relationships away.
C21_ExpandedInBfsOrder ==
    (ex_pc = "done") => ExpandedInHopOrder(EntityIds)

\* C21 amended: the same, with the hops counted along relationships that
\* pass only through entities with a row in the Entity table: an id without
\* a row is skipped and the expansion does not go on from it.
C21_ExpandedInBfsOrderThroughKnownEntities ==
    (ex_pc = "done") => ExpandedInHopOrder(IdsWithRow)

\* a cyclic table with a relationship to an id without a row, expanded over
\* three hops with new entities found in each of them
C21_Witness ==
    /\ ex_pc = "done"
    /\ max_hops = 3
    /\ relationships_cache = RelationshipUniverse
    /\ "M" \notin IdsWithRow
    /\ ex_entities = <<EntityRow("1")>>
    /\ Len(expanded) = 5
    /\ \E k \in 2..5 : HopsTo(expanded[k].id, IdsWithRow) = 2

----------------------------------------------------------------------------
(* C23.  The chunks of a streamed response.                                *)

\* C23: in streaming mode, for any sequence of deltas, every chunk that
\* stream_response yields but the last has at least chunk_size characters;
\* while the stream is still being read, the last chunk yielded so far has
\* them too.
C23_OnlyLastChunkMayBeShort ==
    streaming_enabled =>
        /\ \A k \in 1..(Len(yielded) - 1) : Len(yielded[k]) >= chunk_size
        /\ (sr_pc = "start" /\ yielded # <<>>) =>
               Len(yielded[Len(yielded)]) >= chunk_size

\* a stream with a delta shorter than chunk_size has ended; several chunks
\* were yielded and the last one is shorter than chunk_size
C23_Witness ==
    /\ streaming_enabled
    /\ sr_pc = "ended"
    /\ chunk_size = 3
    /\ deltas_seen = 3
    /\ Len(yielded) = 4
    /\ Len(yielded[4]) < chunk_size
    /\ yielded[1] = <<"a", "b", "c">>

----------------------------------------------------------------------------
(* C24.  The context of a streaming search.                                *)

\* C24: after a streaming search that ran alone has been consumed to its
\* end, get_last_context returns the trimmed context this search built,
\* whatever its include_context argument was.
C24_LastContextIsThisSearchs ==
    \A s \in DOMAIN ds_pc :
        (ds_pc[s] = "ended" /\ ds_context[s] # NoContext /\ ~overlapped[s])
            => ds_got[s] = to_dict(ds_context[s])

----------------------------------------------------------------------------
(* C30.  Two streaming searches at once.                                   *)

\* C30: when two streaming searches with include_context = true run on one
\* engine at the same time, get_last_context, called when the stream of
\* one of them has ended, returns the context of that search.
C30_ConcurrentSearchGetsOwnContext ==
    \A s \in DOMAIN ds_pc :
        (/\ ds_pc[s] = "ended"
         /\ overlapped[s]
         /\ \A t \in DOMAIN ds_pc : include_context[t]
         /\ ds_context[s] # NoContext)
            => ds_got[s] = to_dict(ds_context[s])

----------------------------------------------------------------------------
(* C25.  The JSON that the map-phase parser accepts.                       *)

\* the JSON values of a response
JsonValuesIn(response) ==
    {response[i].value :
        i \in {j \in 1..Len(response) : IsJsonToken(response[j])}}

\* the response is JSON inside the [START_JSON] markers, or bare JSON
\* without a code fence
TaggedOrBareJson(response) ==
    /\ \A i \in 1..Len(response) : response[i] \notin {Fence, Prose}
    /\ JsonValuesIn(response) # {}

\* C25: for a response whose JSON is inside [START_JSON] markers, and for
\* one that is a bare JSON array or object without a code fence,
\* extract_key_points returns the structured key points, with the
\* description, score and report_ids the LLM gave.
C25_TaggedAndBareJsonAreParsed ==
    (kp_pc = "done" /\ TaggedOrBareJson(llm_response)) =>
        LET value == CHOOSE v \in JsonValuesIn(llm_response) : TRUE
            given == StructuredKeyPoints(PointsOf(value), kp_report_ids,
                                         kp_records)
        IN  /\ Len(kp_result) = Len(given)
            /\ \A i \in 1..Len(given) :
                   /\ kp_result[i].description = given[i].description
                   /\ kp_result[i].score = given[i].score
                   /\ kp_result[i].report_ids = given[i].report_ids

----------------------------------------------------------------------------
(* C27.  The source metadata of a key point.                               *)

\* C27: every key point of a batch carries as source_metadata the union of
\* the document_ids, chunk_ids and entity_ids of the batch's records,
\* whether the key point of the LLM lists all report ids of the batch, some
\* of them, or none.
C27_MetadataCoversTheBatch ==
    (kp_pc = "done") =>
        \A i \in 1..Len(kp_result) :
            kp_result[i].source_metadata
                = extract_metadata(kp_records, kp_report_ids)

====
